---- MODULE Spec2Model ----
(***************************************************************************)
(* A model of lib/stream-ssl.c: the process-wide SSL configuration, the    *)
(* active SSL stream (open, connect, recv, send, run, run_wait, wait,      *)
(* close), the CA certificate bootstrap and the passive SSL listener.      *)
(* OpenSSL, the socket layer and the file system are the environment:      *)
(* each call into them is answered by a value drawn from the answers that  *)
(* call can give.                                                          *)
(***************************************************************************)
EXTENDS Integers, Sequences, FiniteSets, TLC

(* ------------------------------ bounds -------------------------------- *)

\* Number of ssl_stream objects that can exist at the same time.
MaxStreams == 2

\* Longest payload a caller hands to ssl_send.
MaxLen == 2

\* Most bytes a caller asks of ssl_recv.
MaxRecv == 11

\* Most bytes a caller hands to ssl_send over the life of one connection.
MaxBytes == 3

Streams == 1..MaxStreams

\* The slot of the stream whose data plane is followed.  ssl_recv, ssl_send,
\* ssl_run, ssl_run_wait and ssl_wait read and write their own stream only.
IoStream == CHOOSE s \in Streams : \A r \in Streams : s <= r
IoStreams == {IoStream}

(* --------------------------- errno values ----------------------------- *)

ENOENT == 2
EIO == 5
EAGAIN == 11
ENOMEM == 12
EACCES == 13
EEXIST == 17
ENOSPC == 28
EPIPE == 32
EPROTO == 71
ENOPROTOOPT == 92
ECONNRESET == 104
ECONNREFUSED == 111

(* ------------------------- OpenSSL vocabulary ------------------------- *)

SSL_NOTHING == "SSL_NOTHING"
SSL_READING == "SSL_READING"
SSL_WRITING == "SSL_WRITING"
Wants == {SSL_NOTHING, SSL_READING, SSL_WRITING}

SSL_VERIFY_PEER == "SSL_VERIFY_PEER"
SSL_VERIFY_FAIL_IF_NO_PEER_CERT == "SSL_VERIFY_FAIL_IF_NO_PEER_CERT"
\* A verification mode is the set of its flag bits; SSL_VERIFY_NONE is 0.
SSL_VERIFY_NONE == {}

SSL_ERROR_NONE == "SSL_ERROR_NONE"
SSL_ERROR_SSL == "SSL_ERROR_SSL"
SSL_ERROR_WANT_READ == "SSL_ERROR_WANT_READ"
SSL_ERROR_WANT_WRITE == "SSL_ERROR_WANT_WRITE"
SSL_ERROR_SYSCALL == "SSL_ERROR_SYSCALL"
SSL_ERROR_ZERO_RETURN == "SSL_ERROR_ZERO_RETURN"

\* Values of SSL_get_state: before the handshake, after it, and while a
\* renegotiation is under way.
SSL_ST_BEFORE == "SSL_ST_BEFORE"
SSL_ST_OK == "SSL_ST_OK"
SSL_ST_RENEGOTIATE == "SSL_ST_RENEGOTIATE"

POLLIN == "POLLIN"
POLLOUT == "POLLOUT"

STREAM_CONNECT == "STREAM_CONNECT"
STREAM_RECV == "STREAM_RECV"
STREAM_SEND == "STREAM_SEND"

CLIENT == "CLIENT"
SERVER == "SERVER"
STATE_TCP_CONNECTING == "STATE_TCP_CONNECTING"
STATE_SSL_CONNECTING == "STATE_SSL_CONNECTING"

(* ------------------------ files and certificates ---------------------- *)

\* "ca" and "root" are self-signed, "leaf" is issued by another
\* certificate, "garbage" is text that PEM_read_X509 cannot parse.
SelfSigned == {"ca", "root"}
Certs == SelfSigned \cup {"leaf"}

\* The certificate chains a peer can present in a handshake.
Chains == {<<>>, <<"leaf">>, <<"leaf", "root">>}

\* File names given to the configuration functions.
Paths == {"cacert.pem", "bad.pem", "new1.pem", "new2.pem"}
NoPath == "NULL"

Absent == [exists |-> FALSE, certs |-> <<>>]
FileOf(certs) == [exists |-> TRUE, certs |-> certs]

VARIABLES
    init_status,        \* ssl_init()'s static: -1 before the first call
    has_private_key,    \* static bool has_private_key
    has_certificate,    \* static bool has_certificate
    key_matches,        \* what SSL_CTX_check_private_key(ctx) answers
    has_ca_cert,        \* static bool has_ca_cert
    bootstrap_ca_cert,  \* static bool bootstrap_ca_cert
    ca_cert_file,       \* static char *ca_cert_file
    trust_store,        \* certificates ctx verifies peers against
    fs,                 \* the file system: path -> file
    listener,           \* whether the pssl_pstream exists
    streams,            \* the ssl_stream objects, by slot
    poll,               \* what the poll loop has been asked to wake for
    pc,                 \* where the host's main loop stands
    history             \* the outbound bytes and payload copies of a stream

vars == <<init_status, has_private_key, has_certificate, key_matches,
          has_ca_cert, bootstrap_ca_cert, ca_cert_file, trust_store, fs,
          listener, streams, poll, pc, history>>

host == <<poll, pc, history>>

config == <<init_status, has_private_key, has_certificate, key_matches,
            has_ca_cert, bootstrap_ca_cert, ca_cert_file, trust_store>>

(* ------------------------------ streams ------------------------------- *)

\* The payload buffer: NULL, or the bytes of the payload not yet written.
NoBuf == [null |-> TRUE, data |-> <<>>]
Buf(data) == [null |-> FALSE, data |-> data]

\* A slot with no stream in it.
NoStream == [open        |-> FALSE,
             state       |-> STATE_SSL_CONNECTING,
             type        |-> CLIENT,
             verify_mode |-> SSL_VERIFY_NONE,
             handshake   |-> "init",
             shut        |-> FALSE,
             ssl_state   |-> SSL_ST_BEFORE,
             txbuf       |-> NoBuf,
             rx_want     |-> SSL_NOTHING,
             tx_want     |-> SSL_NOTHING,
             connected   |-> FALSE]

(* ----------------------------- ssl_init ------------------------------- *)

\* The SSL_CTX_set_verify mode do_ssl_init gives the context.
CtxVerifyMode == {SSL_VERIFY_PEER, SSL_VERIFY_FAIL_IF_NO_PEER_CERT}

\* do_ssl_init(): 0, or ENOPROTOOPT when the library gives no method or
\* no context.
do_ssl_init(init_ok) == IF init_ok THEN 0 ELSE ENOPROTOOPT

\* ssl_init(): the status after the call, which is also what it returns;
\* do_ssl_init runs only the first time.
ssl_init(init_ok) ==
    IF init_status < 0 THEN do_ssl_init(init_ok) ELSE init_status

(* ----------------------- configuration functions ---------------------- *)

\* The statics the configuration functions and the bootstrap write.
Statics ==
    [has_private_key   |-> has_private_key,
     has_certificate   |-> has_certificate,
     key_matches       |-> key_matches,
     has_ca_cert       |-> has_ca_cert,
     bootstrap_ca_cert |-> bootstrap_ca_cert,
     ca_cert_file      |-> ca_cert_file,
     trust_store       |-> trust_store]

\* The statics become those of the record 'new'.
Store(new) ==
    /\ has_private_key' = new.has_private_key
    /\ has_certificate' = new.has_certificate
    /\ key_matches' = new.key_matches
    /\ has_ca_cert' = new.has_ca_cert
    /\ bootstrap_ca_cert' = new.bootstrap_ca_cert
    /\ ca_cert_file' = new.ca_cert_file
    /\ trust_store' = new.trust_store

\* stream_ssl_set_private_key_file() after ssl_init(): the statics it
\* leaves.  'loaded' is whether SSL_CTX_use_PrivateKey_file took the file,
\* 'match' whether the key then agrees with the context's certificate.
set_private_key_file(loaded, match) ==
    IF ~loaded THEN Statics
    ELSE [Statics EXCEPT !.has_private_key = TRUE,
                         !.key_matches = has_certificate /\ match]

\* stream_ssl_set_certificate_file() after ssl_init().
set_certificate_file(loaded, match) ==
    IF ~loaded THEN Statics
    ELSE [Statics EXCEPT !.has_certificate = TRUE,
                         !.key_matches = has_private_key /\ match]

\* read_cert_file(): the errno and the certificates read.  fopen fails on
\* a missing file; PEM_read_X509 fails on an empty file and on text that
\* is no certificate.
read_cert_file(file_name) ==
    LET f == fs[file_name] IN
    IF ~f.exists THEN [errno |-> ENOENT, certs |-> <<>>]
    ELSE IF f.certs = <<>> \/ \E i \in 1..Len(f.certs) : f.certs[i] \notin Certs
         THEN [errno |-> EIO, certs |-> <<>>]
         ELSE [errno |-> 0, certs |-> f.certs]

\* stat(file_name, &s): 0, or the errno.
stat(file_name) == IF fs[file_name].exists THEN 0 ELSE ENOENT

Range(seq) == {seq[i] : i \in 1..Len(seq)}

\* The CA setter setting has_ca_cert once the file is read, before the
\* trust store is loaded.
set_ca_cert_file_early(file_name, bootstrap, load_ok) ==
    IF bootstrap /\ stat(file_name) = ENOENT
    THEN [Statics EXCEPT !.bootstrap_ca_cert = TRUE,
                         !.ca_cert_file = file_name]
    ELSE IF read_cert_file(file_name).errno = 0
         THEN [Statics EXCEPT
                 !.trust_store =
                     IF load_ok
                     THEN @ \cup Range(read_cert_file(file_name).certs)
                     ELSE @,
                 !.has_ca_cert = TRUE]
         ELSE Statics

\* stream_ssl_set_ca_cert_file() after ssl_init(): the statics it leaves.
\* 'load_ok' is whether SSL_CTX_load_verify_locations succeeds.
set_ca_cert_file(file_name, bootstrap, load_ok) ==
    IF bootstrap /\ stat(file_name) = ENOENT
    THEN [Statics EXCEPT !.bootstrap_ca_cert = TRUE,
                         !.ca_cert_file = file_name]
    ELSE IF read_cert_file(file_name).errno = 0
         THEN IF ~load_ok
              THEN Statics
              ELSE [Statics EXCEPT
                      !.trust_store =
                          @ \cup Range(read_cert_file(file_name).certs),
                      !.has_ca_cert = TRUE]
         ELSE Statics

\* A configuration function is called: ssl_init(), then its body.
Configure(init_ok, new) ==
    /\ init_status' = ssl_init(init_ok)
    /\ IF init_status' = 0 THEN Store(new) ELSE Store(Statics)
    /\ UNCHANGED <<fs, listener, streams, host>>

(* --------------------------- new_ssl_stream --------------------------- *)

\* The test without its part on the CA certificate.
check_configuration_noca ==
    IF \/ ~has_private_key
       \/ ~has_certificate
       \/ ~key_matches
    THEN ENOPROTOOPT ELSE 0

\* The test for "all the needful configuration" at the head of
\* new_ssl_stream: 0, or ENOPROTOOPT.
check_configuration ==
    IF \/ ~has_private_key
       \/ ~has_certificate
       \/ (~has_ca_cert /\ ~bootstrap_ca_cert)
       \/ ~key_matches
    THEN ENOPROTOOPT ELSE 0

\* The verification mode of a session new_ssl_stream creates: the
\* context's, relaxed to SSL_VERIFY_NONE for a client in bootstrap mode.
new_verify_mode(type) ==
    IF bootstrap_ca_cert /\ type = CLIENT THEN SSL_VERIFY_NONE
    ELSE CtxVerifyMode

\* What the system and the library can answer new_ssl_stream.
SysAnswers == {"ok", "setsockopt", "SSL_new", "SSL_set_fd"}

\* new_ssl_stream(): the value returned, the stream created (NoStream
\* when it fails: the error path frees the session) and what has become
\* of 'fd': the stream owns it, or the error path has closed it.
new_ssl_stream(type, state, sys) ==
    IF check_configuration # 0
    THEN [retval |-> check_configuration, stream |-> NoStream,
          fd |-> "closed"]
    ELSE IF sys = "setsockopt"
    THEN [retval |-> EACCES, stream |-> NoStream, fd |-> "closed"]
    ELSE IF sys \in {"SSL_new", "SSL_set_fd"}
    THEN [retval |-> ENOPROTOOPT, stream |-> NoStream, fd |-> "closed"]
    ELSE [retval |-> 0,
          fd |-> "owned",
          stream |-> [open        |-> TRUE,
                      state       |-> state,
                      type        |-> type,
                      verify_mode |-> new_verify_mode(type),
                      handshake   |-> "init",
                      shut        |-> FALSE,
                      ssl_state   |-> SSL_ST_BEFORE,
                      txbuf       |-> NoBuf,
                      rx_want     |-> SSL_NOTHING,
                      tx_want     |-> SSL_NOTHING,
                      connected   |-> FALSE]]

\* What inet_open_active can answer: a connected socket, a socket whose
\* connect is in progress, or no socket.
TcpAnswers == {"connected", "in_progress", "failed"}

\* ssl_open(): the value returned and the stream created.
ssl_open(init_ok, tcp, sys) ==
    IF ssl_init(init_ok) # 0
    THEN [retval |-> ssl_init(init_ok), stream |-> NoStream, fd |-> "none"]
    ELSE IF tcp = "failed"
    THEN [retval |-> ECONNREFUSED, stream |-> NoStream, fd |-> "none"]
    ELSE new_ssl_stream(CLIENT,
                        IF tcp = "in_progress" THEN STATE_TCP_CONNECTING
                        ELSE STATE_SSL_CONNECTING,
                        sys)

(* -------------------------- passive streams --------------------------- *)

\* pssl_open(): the value returned; 'bound' is whether inet_open_passive
\* gives a socket.
pssl_open(init_ok, bound) ==
    IF ssl_init(init_ok) # 0 THEN ssl_init(init_ok)
    ELSE IF ~bound THEN EACCES
    ELSE 0

\* What accept() can answer: a connection, EAGAIN on an empty backlog, or
\* another error.
AcceptAnswers == {"connection", "EAGAIN", "error"}

\* pssl_accept creating its stream as ssl_open does for a connection in
\* progress.
pssl_accept_tcp(acc, nonblocking_ok, sys) ==
    IF acc = "EAGAIN"
    THEN [retval |-> EAGAIN, stream |-> NoStream, fd |-> "none"]
    ELSE IF acc = "error"
    THEN [retval |-> ENOMEM, stream |-> NoStream, fd |-> "none"]
    ELSE IF ~nonblocking_ok
    THEN [retval |-> EACCES, stream |-> NoStream, fd |-> "closed"]
    ELSE new_ssl_stream(SERVER, STATE_TCP_CONNECTING, sys)

\* pssl_accept(): the value returned and the stream created.
pssl_accept(acc, nonblocking_ok, sys) ==
    IF acc = "EAGAIN"
    THEN [retval |-> EAGAIN, stream |-> NoStream, fd |-> "none"]
    ELSE IF acc = "error"
    THEN [retval |-> ENOMEM, stream |-> NoStream, fd |-> "none"]
    ELSE IF ~nonblocking_ok
    THEN [retval |-> EACCES, stream |-> NoStream, fd |-> "closed"]
    ELSE new_ssl_stream(SERVER, STATE_SSL_CONNECTING, sys)

(* ------------------------ do_ca_cert_bootstrap ------------------------ *)

\* X509_check_issued(cert, cert) == X509_V_OK.
self_signed(cert) == cert \in SelfSigned

\* Where the file operations of the bootstrap can fail.
FileAnswers == {"ok", "open", "fdopen", "PEM_write_X509", "fclose"}

\* The bootstrap taking the certificate the peer presents first.
candidate_first(chain) == chain[1]

\* The certificate the bootstrap takes from the chain.
candidate(chain) == chain[Len(chain)]

\* open(ca_cert_file, O_CREAT | O_EXCL | O_WRONLY, 0444): 0 or the errno.
exclusive_create(fio) ==
    IF fs[ca_cert_file].exists THEN EEXIST
    ELSE IF fio = "open" THEN EACCES
    ELSE 0

\* The bootstrap leaving bootstrap mode armed once the file is written.
bootstrap_commit_armed(ca_cert, load_ok) ==
    [retval  |-> EPROTO,
     step    |-> IF load_ok THEN "bootstrapped" ELSE "load",
     fs      |-> [fs EXCEPT ![ca_cert_file] = FileOf(<<ca_cert>>)],
     statics |-> [Statics EXCEPT
                    !.has_ca_cert = TRUE,
                    !.trust_store = IF load_ok THEN @ \cup {ca_cert} ELSE @]]

\* The bootstrap letting the connection stand once the trust store is
\* loaded.
bootstrap_commit_ok(ca_cert, load_ok) ==
    [retval  |-> IF load_ok THEN 0 ELSE EPROTO,
     step    |-> IF load_ok THEN "bootstrapped" ELSE "load",
     fs      |-> [fs EXCEPT ![ca_cert_file] = FileOf(<<ca_cert>>)],
     statics |-> [Statics EXCEPT
                    !.bootstrap_ca_cert = FALSE,
                    !.has_ca_cert = TRUE,
                    !.trust_store = IF load_ok THEN @ \cup {ca_cert} ELSE @]]

\* Lines 360-380, once the certificate has been written and the file
\* closed: the flags are flipped, then the trust store is loaded.
bootstrap_commit(ca_cert, load_ok) ==
    [retval  |-> EPROTO,
     step    |-> IF load_ok THEN "bootstrapped" ELSE "load",
     fs      |-> [fs EXCEPT ![ca_cert_file] = FileOf(<<ca_cert>>)],
     statics |-> [Statics EXCEPT
                    !.bootstrap_ca_cert = FALSE,
                    !.has_ca_cert = TRUE,
                    !.trust_store = IF load_ok THEN @ \cup {ca_cert} ELSE @]]

\* The bootstrap without its calls of unlink: the file it could not finish
\* stays, empty after a failed fdopen or PEM_write_X509, written after a
\* failed fclose.
do_ca_cert_bootstrap_nounlink(chain, fio, load_ok) ==
    LET same(retval, step) ==
            [retval |-> retval, step |-> step, fs |-> fs,
             statics |-> Statics]
        left(retval, step, certs) ==
            [retval |-> retval, step |-> step,
             fs |-> [fs EXCEPT ![ca_cert_file] = FileOf(certs)],
             statics |-> Statics]
    IN  IF Len(chain) = 0 THEN same(EPROTO, "no_certificate")
        ELSE IF ~self_signed(candidate(chain))
        THEN same(EPROTO, "not_self_signed")
        ELSE IF exclusive_create(fio) # 0
        THEN same(exclusive_create(fio), "open")
        ELSE IF fio = "fdopen" THEN left(ENOMEM, "fdopen", <<>>)
        ELSE IF fio = "PEM_write_X509"
        THEN left(EIO, "PEM_write_X509", <<>>)
        ELSE IF fio = "fclose"
        THEN left(ENOSPC, "fclose", <<candidate(chain)>>)
        ELSE bootstrap_commit(candidate(chain), load_ok)

\* do_ca_cert_bootstrap(): the value returned, the step it ended at, and
\* the file system and statics it leaves.  A file it created and could not
\* finish is unlinked, which leaves the file system as it was.
do_ca_cert_bootstrap(chain, fio, load_ok) ==
    LET same(retval, step) ==
            [retval |-> retval, step |-> step, fs |-> fs,
             statics |-> Statics]
    IN  IF Len(chain) = 0 THEN same(EPROTO, "no_certificate")
        ELSE IF ~self_signed(candidate(chain))
        THEN same(EPROTO, "not_self_signed")
        ELSE IF exclusive_create(fio) # 0
        THEN same(exclusive_create(fio), "open")
        ELSE IF fio = "fdopen" THEN same(ENOMEM, "fdopen")
        ELSE IF fio = "PEM_write_X509" THEN same(EIO, "PEM_write_X509")
        ELSE IF fio = "fclose" THEN same(ENOSPC, "fclose")
        ELSE bootstrap_commit(candidate(chain), load_ok)

(* ----------------------------- ssl_connect ---------------------------- *)

ssl_wants_io(ssl_error) ==
    ssl_error = SSL_ERROR_WANT_WRITE \/ ssl_error = SSL_ERROR_WANT_READ

HandshakeDone == [ret |-> 1, error |-> SSL_ERROR_NONE]
HandshakeBlocked == {[ret |-> -1, error |-> SSL_ERROR_WANT_READ],
                     [ret |-> -1, error |-> SSL_ERROR_WANT_WRITE]}
HandshakeFailed == {[ret |-> -1, error |-> SSL_ERROR_SSL],
                    [ret |-> -1, error |-> SSL_ERROR_SYSCALL],
                    [ret |-> 0, error |-> SSL_ERROR_SYSCALL]}

\* What SSL_connect or SSL_accept can answer on the session of 'sv'.  A
\* session that verifies its peer completes only against a loaded trust
\* store, a completed session stays completed, and a session whose socket
\* has been shut down fails.
HandshakeAnswers(sv) ==
    IF sv.handshake = "done" THEN {HandshakeDone}
    ELSE IF sv.shut THEN HandshakeFailed
    ELSE HandshakeBlocked \cup HandshakeFailed \cup
         (IF SSL_VERIFY_PEER \notin sv.verify_mode \/ trust_store # {}
          THEN {HandshakeDone} ELSE {})

\* What SSL_get_peer_cert_chain can answer on the session of 'sv': a
\* verified peer has presented a certificate.
ChainAnswers(sv) ==
    IF SSL_VERIFY_PEER \in sv.verify_mode THEN Chains \ {<<>>} ELSE Chains

\* (SSL_get_verify_mode(ssl) & (SSL_VERIFY_NONE | SSL_VERIFY_PEER))
\*     != SSL_VERIFY_PEER
not_verified(verify_mode) ==
    verify_mode \cap (SSL_VERIFY_NONE \cup {SSL_VERIFY_PEER})
        # {SSL_VERIFY_PEER}

\* ssl_connect without the test of the bootstrap race window.
connect_branch_norace(sv, ans) ==
    IF ans.ret # 1
    THEN IF ans.ret < 0 /\ ssl_wants_io(ans.error) THEN "again"
         ELSE "shutdown"
    ELSE IF bootstrap_ca_cert THEN "bootstrap"
    ELSE "established"

\* ssl_connect asking for a retry after every handshake that did not
\* complete.
connect_branch_retry(sv, ans) ==
    IF ans.ret # 1 THEN "again"
    ELSE IF bootstrap_ca_cert THEN "bootstrap"
    ELSE IF not_verified(sv.verify_mode) THEN "race"
    ELSE "established"

\* The branch ssl_connect takes in STATE_SSL_CONNECTING on the handshake
\* answer 'ans'.
connect_branch(sv, ans) ==
    IF ans.ret # 1
    THEN IF ans.ret < 0 /\ ssl_wants_io(ans.error) THEN "again"
         ELSE "shutdown"
    ELSE IF bootstrap_ca_cert THEN "bootstrap"
    ELSE IF not_verified(sv.verify_mode) THEN "race"
    ELSE "established"

\* What check_connection_completion can answer.
ProbeAnswers == {0, EAGAIN, ECONNREFUSED}

\* ssl_connect leaving STATE_TCP_CONNECTING on a probe that has not
\* succeeded.
ssl_connect_advance(sv, probe, ans, chain, fio, load_ok) ==
    LET same(retval, step, stream) ==
            [retval |-> retval, step |-> step, stream |-> stream,
             fs |-> fs, statics |-> Statics]
        branch == connect_branch(sv, ans)
        boot == do_ca_cert_bootstrap(chain, fio, load_ok)
        sv2 == [sv EXCEPT !.state = STATE_SSL_CONNECTING,
                          !.handshake = IF ans = HandshakeDone THEN "done"
                                        ELSE @,
                          !.ssl_state = IF ans = HandshakeDone
                                        /\ sv.handshake # "done"
                                        THEN SSL_ST_OK ELSE @]
    IN  IF sv.state = STATE_TCP_CONNECTING /\ probe # 0
        THEN same(probe, "tcp", sv2)
        ELSE CASE branch = "again" -> same(EAGAIN, branch, sv2)
               [] branch = "shutdown" ->
                    same(EPROTO, branch, [sv2 EXCEPT !.shut = TRUE])
               [] branch = "bootstrap" ->
                    [retval |-> boot.retval, step |-> boot.step,
                     stream |-> sv2, fs |-> boot.fs,
                     statics |-> boot.statics]
               [] branch = "race" -> same(EPROTO, branch, sv2)
               [] OTHER -> same(0, branch, [sv2 EXCEPT !.connected = TRUE])

\* ssl_connect() on the stream 'sv': the value returned, the step it ended
\* at, and the stream, file system and statics it leaves.  'connected'
\* remembers that it has returned 0.
ssl_connect(sv, probe, ans, chain, fio, load_ok) ==
    LET same(retval, step, stream) ==
            [retval |-> retval, step |-> step, stream |-> stream,
             fs |-> fs, statics |-> Statics]
        branch == connect_branch(sv, ans)
        boot == do_ca_cert_bootstrap(chain, fio, load_ok)
        sv2 == [sv EXCEPT !.state = STATE_SSL_CONNECTING,
                          !.handshake = IF ans = HandshakeDone THEN "done"
                                        ELSE @,
                          !.ssl_state = IF ans = HandshakeDone
                                        /\ sv.handshake # "done"
                                        THEN SSL_ST_OK ELSE @]
    IN  IF sv.state = STATE_TCP_CONNECTING /\ probe # 0
        THEN same(probe, "tcp", sv)
        ELSE CASE branch = "again" -> same(EAGAIN, branch, sv2)
               [] branch = "shutdown" ->
                    same(EPROTO, branch, [sv2 EXCEPT !.shut = TRUE])
               [] branch = "bootstrap" ->
                    [retval |-> boot.retval, step |-> boot.step,
                     stream |-> sv2, fs |-> boot.fs,
                     statics |-> boot.statics]
               [] branch = "race" -> same(EPROTO, branch, sv2)
               [] OTHER -> same(0, branch, [sv2 EXCEPT !.connected = TRUE])

(* ------------------------- interpret_ssl_error ------------------------ *)

\* An answer of SSL_read or SSL_write: the value returned, what
\* SSL_get_error makes of it, whether ERR_get_error finds a queued error,
\* errno, and what SSL_get_state gives after the call.
Answer(ret, error, queued, errno, state) ==
    [ret |-> ret, error |-> error, queued |-> queued, errno |-> errno,
     state |-> state]

\* interpret_ssl_error(): the value returned and what it stores in *want.
interpret_ssl_error(a) ==
    CASE a.error = SSL_ERROR_WANT_READ ->
            [retval |-> EAGAIN, want |-> SSL_READING]
      [] a.error = SSL_ERROR_WANT_WRITE ->
            [retval |-> EAGAIN, want |-> SSL_WRITING]
      [] a.error = SSL_ERROR_SYSCALL /\ ~a.queued ->
            [retval |-> IF a.ret < 0 THEN a.errno ELSE EPROTO,
             want |-> SSL_NOTHING]
      [] OTHER -> [retval |-> EIO, want |-> SSL_NOTHING]

\* The ways a read or write call fails, each with the state it can leave
\* the session in.
Failures ==
    {Answer(r[1], r[2], r[3], r[4], state) :
        r \in {<<0, SSL_ERROR_ZERO_RETURN, FALSE, 0>>,
               <<-1, SSL_ERROR_WANT_READ, FALSE, EAGAIN>>,
               <<-1, SSL_ERROR_WANT_WRITE, FALSE, EAGAIN>>,
               <<-1, SSL_ERROR_SYSCALL, FALSE, ECONNRESET>>,
               <<0, SSL_ERROR_SYSCALL, FALSE, 0>>,
               <<-1, SSL_ERROR_SYSCALL, TRUE, 0>>,
               <<-1, SSL_ERROR_SSL, TRUE, 0>>},
        state \in {SSL_ST_OK, SSL_ST_RENEGOTIATE}}

\* A call that moves n bytes.
Moved(n, state) == Answer(n, SSL_ERROR_NONE, FALSE, 0, state)

\* What a call asked to move up to n bytes can answer.
Answers(n) ==
    Failures \cup {Moved(k, state) : k \in 1..n,
                                     state \in {SSL_ST_OK, SSL_ST_RENEGOTIATE}}

(* ------------------------------ ssl_recv ------------------------------ *)

\* ssl_recv resetting tx_want on every call.
ssl_recv_reset(sv, a) ==
    LET sv1 == [sv EXCEPT !.tx_want = SSL_NOTHING,
                          !.rx_want = SSL_NOTHING,
                          !.ssl_state = a.state]
    IN  IF a.ret > 0 THEN [retval |-> a.ret, stream |-> sv1]
        ELSE IF a.error = SSL_ERROR_ZERO_RETURN
        THEN [retval |-> 0, stream |-> sv1]
        ELSE [retval |-> interpret_ssl_error(a).retval,
              stream |-> [sv1 EXCEPT
                            !.rx_want = interpret_ssl_error(a).want]]

\* ssl_recv() answered 'a' by SSL_read: the value returned and the stream
\* it leaves.
ssl_recv(sv, a) ==
    LET sv1 == [sv EXCEPT
                  !.tx_want = IF sv.ssl_state # a.state THEN SSL_NOTHING
                              ELSE @,
                  !.rx_want = SSL_NOTHING,
                  !.ssl_state = a.state]
    IN  IF a.ret > 0 THEN [retval |-> a.ret, stream |-> sv1]
        ELSE IF a.error = SSL_ERROR_ZERO_RETURN
        THEN [retval |-> 0, stream |-> sv1]
        ELSE [retval |-> interpret_ssl_error(a).retval,
              stream |-> [sv1 EXCEPT
                            !.rx_want = interpret_ssl_error(a).want]]

(* -------------------------- ssl_do_tx, ssl_send ----------------------- *)

\* ofpbuf_pull(txbuf, n).
ofpbuf_pull(txbuf, n) == Buf(SubSeq(txbuf.data, n + 1, Len(txbuf.data)))

\* ssl_clear_txbuf().
ssl_clear_txbuf(sv) == [sv EXCEPT !.txbuf = NoBuf]

\* The loop of ssl_do_tx leaving rx_want alone.
do_tx_step_keep(sv, a) ==
    LET sv1 == [sv EXCEPT !.tx_want = SSL_NOTHING,
                          !.ssl_state = a.state]
    IN  IF a.ret > 0 THEN [sv1 EXCEPT !.txbuf = ofpbuf_pull(@, a.ret)]
        ELSE IF a.error = SSL_ERROR_ZERO_RETURN THEN sv1
        ELSE [sv1 EXCEPT !.tx_want = interpret_ssl_error(a).want]

\* The loop of ssl_do_tx writing tx_want only when SSL_write fails.
do_tx_step_stale(sv, a) ==
    LET sv1 == [sv EXCEPT
                  !.rx_want = IF sv.ssl_state # a.state THEN SSL_NOTHING
                              ELSE @,
                  !.ssl_state = a.state]
    IN  IF a.ret > 0 THEN [sv1 EXCEPT !.txbuf = ofpbuf_pull(@, a.ret)]
        ELSE IF a.error = SSL_ERROR_ZERO_RETURN THEN sv1
        ELSE [sv1 EXCEPT !.tx_want = interpret_ssl_error(a).want]

\* One turn of the loop of ssl_do_tx, SSL_write answering 'a': the stream
\* after the wants and the buffer are updated.
do_tx_step(sv, a) ==
    LET sv1 == [sv EXCEPT
                  !.rx_want = IF sv.ssl_state # a.state THEN SSL_NOTHING
                              ELSE @,
                  !.tx_want = SSL_NOTHING,
                  !.ssl_state = a.state]
    IN  IF a.ret > 0 THEN [sv1 EXCEPT !.txbuf = ofpbuf_pull(@, a.ret)]
        ELSE IF a.error = SSL_ERROR_ZERO_RETURN THEN sv1
        ELSE [sv1 EXCEPT !.tx_want = interpret_ssl_error(a).want]

\* ssl_do_tx(), the calls of SSL_write answering 'script' in turn: the
\* value returned, the stream it leaves, and the bytes SSL_write took: of
\* the data each call is given, the first 'ret'.
RECURSIVE ssl_do_tx(_, _)
ssl_do_tx(sv, script) ==
    LET a == Head(script)
        sv1 == do_tx_step(sv, a)
        took == SubSeq(sv.txbuf.data, 1, a.ret)
    IN  IF a.ret > 0
        THEN IF Len(sv1.txbuf.data) = 0
             THEN [retval |-> 0, stream |-> sv1, wrote |-> took]
             ELSE [ssl_do_tx(sv1, Tail(script)) EXCEPT !.wrote = took \o @]
        ELSE IF a.error = SSL_ERROR_ZERO_RETURN
        THEN [retval |-> EPIPE, stream |-> sv1, wrote |-> <<>>]
        ELSE [retval |-> interpret_ssl_error(a).retval, stream |-> sv1,
              wrote |-> <<>>]

\* The answers SSL_write can give the loop of ssl_do_tx with n bytes
\* buffered: writes of part of what is left, then a write of the rest or a
\* failure.
RECURSIVE Scripts(_)
Scripts(n) ==
    {<<a>> : a \in Failures}
    \cup {<<Moved(n, state)>> : state \in {SSL_ST_OK, SSL_ST_RENEGOTIATE}}
    \cup UNION {{<<Moved(k, state)>> \o rest : rest \in Scripts(n - k)} :
                  k \in 1..(n - 1), state \in {SSL_ST_OK, SSL_ST_RENEGOTIATE}}

\* The payloads a caller hands to ssl_send.
Payloads == {[i \in 1..n |-> i] : n \in 1..MaxLen}

\* ofpbuf_clone_data(buffer, n).
ofpbuf_clone_data(buffer) == Buf(buffer)

\* ssl_send on a stream with a payload buffered taking the new payload in
\* its place.
ssl_send_replace(sv, buffer, script) ==
    IF ~sv.txbuf.null
    THEN [retval |-> 0,
          stream |-> [sv EXCEPT !.txbuf = ofpbuf_clone_data(buffer)],
          wrote |-> <<>>, leaked |-> FALSE]
    ELSE LET tx == ssl_do_tx([sv EXCEPT !.txbuf = ofpbuf_clone_data(buffer)],
                             script)
         IN  CASE tx.retval = 0 ->
                    [retval |-> 0, stream |-> ssl_clear_txbuf(tx.stream),
                     wrote |-> tx.wrote, leaked |-> FALSE]
               [] tx.retval = EAGAIN ->
                    [retval |-> 0, stream |-> tx.stream,
                     wrote |-> tx.wrote, leaked |-> FALSE]
               [] OTHER ->
                    [retval |-> tx.retval,
                     stream |-> [tx.stream EXCEPT !.txbuf = NoBuf],
                     wrote |-> tx.wrote, leaked |-> TRUE]

\* ssl_send giving up the payload when the write blocks.
ssl_send_drop(sv, buffer, script) ==
    IF ~sv.txbuf.null
    THEN [retval |-> EAGAIN, stream |-> sv, wrote |-> <<>>,
          leaked |-> FALSE]
    ELSE LET tx == ssl_do_tx([sv EXCEPT !.txbuf = ofpbuf_clone_data(buffer)],
                             script)
         IN  CASE tx.retval \in {0, EAGAIN} ->
                    [retval |-> 0, stream |-> ssl_clear_txbuf(tx.stream),
                     wrote |-> tx.wrote, leaked |-> FALSE]
               [] OTHER ->
                    [retval |-> tx.retval,
                     stream |-> [tx.stream EXCEPT !.txbuf = NoBuf],
                     wrote |-> tx.wrote, leaked |-> TRUE]

\* ssl_send(): the value returned, the stream it leaves, the bytes
\* SSL_write took, and whether the copy of the payload is left allocated
\* with nothing referring to it: the default case sets txbuf to NULL
\* without a call of ofpbuf_delete.
ssl_send(sv, buffer, script) ==
    IF ~sv.txbuf.null
    THEN [retval |-> EAGAIN, stream |-> sv, wrote |-> <<>>,
          leaked |-> FALSE]
    ELSE LET tx == ssl_do_tx([sv EXCEPT !.txbuf = ofpbuf_clone_data(buffer)],
                             script)
         IN  CASE tx.retval = 0 ->
                    [retval |-> 0, stream |-> ssl_clear_txbuf(tx.stream),
                     wrote |-> tx.wrote, leaked |-> FALSE]
               [] tx.retval = EAGAIN ->
                    [retval |-> 0, stream |-> tx.stream,
                     wrote |-> tx.wrote, leaked |-> FALSE]
               [] OTHER ->
                    [retval |-> tx.retval,
                     stream |-> [tx.stream EXCEPT !.txbuf = NoBuf],
                     wrote |-> tx.wrote, leaked |-> TRUE]

(* ------------------------- ssl_run, ssl_run_wait ---------------------- *)

\* ssl_run never releasing the payload.
ssl_run_keep(sv, script) ==
    IF ~sv.txbuf.null THEN ssl_do_tx(sv, script).stream ELSE sv

\* ssl_run giving up the payload whatever ssl_do_tx returns.
ssl_run_drop(sv, script) ==
    IF ~sv.txbuf.null THEN ssl_clear_txbuf(ssl_do_tx(sv, script).stream)
    ELSE sv

\* ssl_run(): the stream it leaves.
ssl_run(sv, script) ==
    IF ~sv.txbuf.null /\ ssl_do_tx(sv, script).retval # EAGAIN
    THEN ssl_clear_txbuf(ssl_do_tx(sv, script).stream)
    ELSE IF ~sv.txbuf.null THEN ssl_do_tx(sv, script).stream
    ELSE sv

\* want_to_poll_events(): the poll events, or NOT_REACHED.
want_to_poll_events(want) ==
    CASE want = SSL_READING -> POLLIN
      [] want = SSL_WRITING -> POLLOUT
      [] OTHER -> "NOT_REACHED"

\* What a wait function asks of the poll loop: poll_immediate_wake(), and
\* the events of its calls of poll_fd_wait(fd, events).
Asks(immediate, events) == [immediate |-> immediate, events |-> events]

\* ssl_run_wait().
ssl_run_wait(sv) ==
    IF sv.tx_want # SSL_NOTHING
    THEN Asks(FALSE, {want_to_poll_events(sv.tx_want)})
    ELSE Asks(FALSE, {})

\* ssl_wait() for STREAM_RECV and STREAM_SEND.
ssl_wait(sv, wait) ==
    CASE wait = STREAM_RECV ->
            IF sv.rx_want # SSL_NOTHING
            THEN Asks(FALSE, {want_to_poll_events(sv.rx_want)})
            ELSE Asks(TRUE, {})
      [] wait = STREAM_SEND ->
            IF sv.txbuf.null THEN Asks(TRUE, {}) ELSE Asks(FALSE, {})

\* SSL_want() right after the call of SSL_connect or SSL_accept that
\* answered 'ans': the direction the session itself waits for.
SSL_want(ans) ==
    IF ans.ret < 0 /\ ans.error = SSL_ERROR_WANT_READ THEN SSL_READING
    ELSE IF ans.ret < 0 /\ ans.error = SSL_ERROR_WANT_WRITE THEN SSL_WRITING
    ELSE SSL_NOTHING

\* stream_connect() of the stream layer: the connect function of the
\* class is called as long as the stream is not connected, and a
\* connected stream gives 0 without a call.
stream_connect(sv, probe, ans, chain, fio, load_ok) ==
    IF sv.connected
    THEN [retval |-> 0, step |-> "connected", stream |-> sv, fs |-> fs,
          statics |-> Statics]
    ELSE ssl_connect(sv, probe, ans, chain, fio, load_ok)

\* ssl_wait for STREAM_CONNECT taking the direction from the session in
\* either connecting state.
ssl_wait_connect_nostate(sv, probe, ans, chain, fio, load_ok) ==
    LET c == stream_connect(sv, probe, ans, chain, fio, load_ok)
    IN  [asks |-> IF c.retval # EAGAIN THEN Asks(TRUE, {})
                  ELSE Asks(FALSE, {want_to_poll_events(SSL_want(ans))}),
         stream |-> c.stream, fs |-> c.fs, statics |-> c.statics]

\* ssl_wait() for STREAM_CONNECT: what it asks of the poll loop, and the
\* stream, file system and statics that its call of stream_connect leaves.
ssl_wait_connect(sv, probe, ans, chain, fio, load_ok) ==
    LET c == stream_connect(sv, probe, ans, chain, fio, load_ok)
    IN  [asks |-> IF c.retval # EAGAIN THEN Asks(TRUE, {})
                  ELSE IF c.stream.state = STATE_TCP_CONNECTING
                  THEN Asks(FALSE, {POLLOUT})
                  ELSE Asks(FALSE, {want_to_poll_events(SSL_want(ans))}),
         stream |-> c.stream, fs |-> c.fs, statics |-> c.statics]

(* ------------------------------ ssl_close ----------------------------- *)

\* What SSL_shutdown can answer: the close is complete, the close
\* notification is sent and the peer's is awaited, or the call blocked or
\* failed.
ShutdownAnswers == {"complete", "sent", "blocked", "failed"}

\* The calls ssl_close makes, in order; ofpbuf_delete is given txbuf,
\* NULL or not.
CloseCalls == <<"ofpbuf_delete", "SSL_shutdown", "SSL_free", "close", "free">>

\* ssl_close coming back to a close notification that blocked: the stream
\* stays until SSL_shutdown has gone through.
ssl_close_retry(sv, ans) ==
    IF ans = "blocked"
    THEN [stream |-> ssl_clear_txbuf(sv),
          calls |-> SubSeq(CloseCalls, 1, 2), deleted |-> sv.txbuf]
    ELSE [stream |-> NoStream, calls |-> CloseCalls, deleted |-> sv.txbuf]

\* ssl_close() with SSL_shutdown answering 'ans': the slot it leaves, the
\* calls it has made and the buffer it has deleted.  The payload is
\* dropped, SSL_shutdown is called once and its value is not looked at,
\* the session and the socket are released and the stream is freed.
ssl_close(sv, ans) ==
    [stream |-> NoStream, calls |-> CloseCalls, deleted |-> sv.txbuf]

(* ------------------------------- actions ------------------------------ *)

\* The answers that decide a call: an answer the call never looks at is
\* drawn from a single value.
InitAnswers == IF init_status < 0 THEN BOOLEAN ELSE {TRUE}
When(cond, answers, only) == IF cond THEN answers ELSE {only}

SetPrivateKey ==
    \E init_ok \in InitAnswers, loaded \in BOOLEAN :
        \E match \in When(loaded /\ has_certificate, BOOLEAN, FALSE) :
            Configure(init_ok, set_private_key_file(loaded, match))

SetCertificate ==
    \E init_ok \in InitAnswers, loaded \in BOOLEAN :
        \E match \in When(loaded /\ has_private_key, BOOLEAN, FALSE) :
            Configure(init_ok, set_certificate_file(loaded, match))

\* The answers SSL_CTX_load_verify_locations can give the CA setter.
LoadAnswers(file_name, bootstrap) ==
    When(/\ ~(bootstrap /\ stat(file_name) = ENOENT)
         /\ read_cert_file(file_name).errno = 0, BOOLEAN, TRUE)

SetCaCert ==
    \E file_name \in Paths, bootstrap \in BOOLEAN, init_ok \in InitAnswers :
        \E load_ok \in LoadAnswers(file_name, bootstrap) :
            Configure(init_ok, set_ca_cert_file(file_name, bootstrap, load_ok))

\* The answers the environment can give a call of ssl_open.
OpenAnswers ==
    {a \in [init_ok : InitAnswers, tcp : TcpAnswers, sys : SysAnswers] :
        ~(a.tcp # "failed" /\ check_configuration = 0) => a.sys = "ok"}

Opened(a) == ssl_open(a.init_ok, a.tcp, a.sys)

\* ssl_open() into the free slot s.
Open(s) ==
    \E a \in OpenAnswers :
        /\ ~streams[s].open
        /\ init_status' = ssl_init(a.init_ok)
        /\ streams' = [streams EXCEPT ![s] = Opened(a).stream]
        /\ UNCHANGED <<has_private_key, has_certificate, key_matches,
                       has_ca_cert, bootstrap_ca_cert, ca_cert_file,
                       trust_store, fs, listener>>

Listen ==
    \E init_ok \in InitAnswers, bound \in BOOLEAN :
        /\ ~listener
        /\ init_status' = ssl_init(init_ok)
        /\ listener' = (pssl_open(init_ok, bound) = 0)
        /\ UNCHANGED <<has_private_key, has_certificate, key_matches,
                       has_ca_cert, bootstrap_ca_cert, ca_cert_file,
                       trust_store, fs, streams, host>>

\* pssl_close().
Unlisten ==
    /\ listener
    /\ listener' = FALSE
    /\ UNCHANGED <<config, fs, streams, host>>

\* The answers the environment can give a call of pssl_accept.
AcceptedAnswers ==
    {a \in [acc : AcceptAnswers, nonblocking_ok : BOOLEAN, sys : SysAnswers] :
        /\ a.acc # "connection" => a.nonblocking_ok
        /\ ~(/\ a.acc = "connection" /\ a.nonblocking_ok
             /\ check_configuration = 0) => a.sys = "ok"}

Accepted(a) == pssl_accept(a.acc, a.nonblocking_ok, a.sys)

\* pssl_accept() creating the stream in the free slot s.
Accept(s) ==
    \E a \in AcceptedAnswers :
        /\ listener
        /\ ~streams[s].open
        /\ streams' = [streams EXCEPT ![s] = Accepted(a).stream]
        /\ UNCHANGED <<config, fs, listener>>

\* Whether ssl_connect on 'sv' gets as far as the bootstrap on 'a'.
Boots(sv, a) ==
    /\ ~(sv.state = STATE_TCP_CONNECTING /\ a.probe # 0)
    /\ connect_branch(sv, a.ans) = "bootstrap"

\* The answers the environment can give a call of ssl_connect on 'sv':
\* the probe of the TCP connection fails and the handshake is not run; or
\* the handshake is run and the bootstrap is not; or the bootstrap is run
\* on a chain of the peer.  An answer the call never asks for is drawn
\* from a single value.
ConnectAnswers(sv) ==
    LET answer(probe, ans, chain, fio, load_ok) ==
            [probe |-> probe, ans |-> ans, chain |-> chain, fio |-> fio,
             load_ok |-> load_ok]
        unasked == [ret |-> -1, error |-> SSL_ERROR_WANT_READ]
        \* The file operations are asked for on a chain that ends in a
        \* self-signed certificate, the load once they have succeeded.
        files(chain) ==
            IF Len(chain) > 0 /\ chain[Len(chain)] \in SelfSigned
            THEN FileAnswers ELSE {"ok"}
        loads(chain, fio) ==
            IF files(chain) = FileAnswers /\ fio = "ok" THEN BOOLEAN
            ELSE {TRUE}
    IN  (IF sv.state = STATE_TCP_CONNECTING
         THEN {answer(probe, unasked, <<"leaf">>, "ok", TRUE) :
                 probe \in ProbeAnswers \ {0}}
         ELSE {})
        \cup
        {answer(0, ans, <<"leaf">>, "ok", TRUE) :
           ans \in {h \in HandshakeAnswers(sv) :
                      connect_branch(sv, h) # "bootstrap"}}
        \cup
        UNION {UNION {UNION {{answer(0, ans, chain, fio, load_ok) :
                                load_ok \in loads(chain, fio)} :
                             fio \in files(chain)} :
                      chain \in ChainAnswers(sv)} :
               ans \in {h \in HandshakeAnswers(sv) :
                          connect_branch(sv, h) = "bootstrap"}}

Connected(sv, a) ==
    ssl_connect(sv, a.probe, a.ans, a.chain, a.fio, a.load_ok)

\* ssl_connect() on the stream in slot s.
Connect(s) ==
    /\ streams[s].open
    /\ \E a \in ConnectAnswers(streams[s]) :
        /\ streams' = [streams EXCEPT ![s] = Connected(streams[s], a).stream]
        /\ fs' = Connected(streams[s], a).fs
        /\ Store(Connected(streams[s], a).statics)
        /\ UNCHANGED <<init_status, listener>>

\* ssl_close() on the stream in slot s.
Close(s) ==
    /\ streams[s].open
    /\ \E ans \in ShutdownAnswers :
        streams' = [streams EXCEPT ![s] = ssl_close(streams[s], ans).stream]
    /\ UNCHANGED <<config, fs, listener>>

\* ssl_recv() on the connected stream in slot s, for up to n bytes.
Recv(s) ==
    /\ streams[s].connected
    /\ \E a \in UNION {Answers(n) : n \in 1..MaxRecv} :
        streams' = [streams EXCEPT ![s] = ssl_recv(streams[s], a).stream]
    /\ UNCHANGED <<config, fs, listener>>

\* The answers SSL_write can give a call of ssl_send or ssl_run on 'sv'
\* with 'n' bytes to write.
WriteAnswers(sv, n) == When(n > 0, Scripts(n), <<>>)

\* ssl_send() on the connected stream in slot s.
Send(s) ==
    /\ streams[s].connected
    /\ \E buffer \in Payloads :
        \E script \in WriteAnswers(streams[s],
                                   IF streams[s].txbuf.null THEN Len(buffer)
                                   ELSE 0) :
            streams' = [streams EXCEPT
                          ![s] = ssl_send(streams[s], buffer, script).stream]
    /\ UNCHANGED <<config, fs, listener>>

\* ssl_run() on the stream in slot s.
Run(s) ==
    /\ streams[s].open
    /\ \E script \in WriteAnswers(streams[s], Len(streams[s].txbuf.data)) :
        streams' = [streams EXCEPT ![s] = ssl_run(streams[s], script)]
    /\ UNCHANGED <<config, fs, listener>>

(* ---------------------------- specification --------------------------- *)

\* No payload has been handed to ssl_send: 'given' are the bytes of the
\* payloads ssl_send returned 0 for, 'written' the bytes SSL_write took,
\* 'next' the number of bytes ssl_send copied, 'failed' whether a write
\* ended in an error, 'lost' the number of copies left allocated with
\* nothing referring to them.
NoHistory == [given |-> <<>>, written |-> <<>>, next |-> 0,
              failed |-> FALSE, lost |-> 0]

\* The poll loop asked for nothing.
NoPoll ==
    [w \in {"run_wait", STREAM_CONNECT, STREAM_RECV, STREAM_SEND} |->
       Asks(FALSE, {})]

Init ==
    /\ init_status = -1
    /\ has_private_key = FALSE
    /\ has_certificate = FALSE
    /\ key_matches = FALSE
    /\ has_ca_cert = FALSE
    /\ bootstrap_ca_cert = FALSE
    /\ ca_cert_file = NoPath
    /\ trust_store = {}
    /\ fs = [p \in Paths |->
               IF p = "cacert.pem" THEN FileOf(<<"ca">>)
               ELSE IF p = "bad.pem" THEN FileOf(<<"garbage">>)
               ELSE Absent]
    /\ listener = FALSE
    /\ streams = [s \in Streams |-> NoStream]
    /\ poll = NoPoll
    /\ pc = "start"
    /\ history = NoHistory

\* The configuration functions, the listener, and the creation, handshake
\* and destruction of streams.
Next ==
    \/ SetPrivateKey
    \/ SetCertificate
    \/ SetCaCert
    \/ Listen
    \/ Unlisten
    \/ \E s \in Streams : Open(s) /\ UNCHANGED host
    \/ \E s \in Streams : Accept(s) /\ UNCHANGED host
    \/ \E s \in Streams : Connect(s) /\ UNCHANGED host
    \/ \E s \in Streams : Close(s) /\ UNCHANGED host

Spec == Init /\ [][Next]_vars

\* A process configured with a key, its certificate and the CA
\* certificate of cacert.pem, and listening.
IoInit ==
    /\ init_status = 0
    /\ has_private_key = TRUE
    /\ has_certificate = TRUE
    /\ key_matches = TRUE
    /\ has_ca_cert = TRUE
    /\ bootstrap_ca_cert = FALSE
    /\ ca_cert_file = NoPath
    /\ trust_store = {"ca"}
    /\ fs = [p \in Paths |->
               IF p = "cacert.pem" THEN FileOf(<<"ca">>)
               ELSE IF p = "bad.pem" THEN FileOf(<<"garbage">>)
               ELSE Absent]
    /\ listener = TRUE
    /\ streams = [s \in Streams |-> NoStream]
    /\ poll = NoPoll
    /\ pc = "start"
    /\ history = NoHistory

\* The streams of the configured process, called in any order.
IoNext ==
    \/ \E s \in IoStreams : Open(s) /\ UNCHANGED host
    \/ \E s \in IoStreams : Accept(s) /\ UNCHANGED host
    \/ \E s \in IoStreams : Connect(s) /\ UNCHANGED host
    \/ \E s \in IoStreams : Close(s) /\ UNCHANGED host
    \/ \E s \in IoStreams : Recv(s) /\ UNCHANGED host
    \/ \E s \in IoStreams : Send(s) /\ UNCHANGED host
    \/ \E s \in IoStreams : Run(s) /\ UNCHANGED host

IoSpec == IoInit /\ [][IoNext]_vars

(* ------------------------- waiting to connect ------------------------- *)

WaitedConnect(sv, a) ==
    ssl_wait_connect(sv, a.probe, a.ans, a.chain, a.fio, a.load_ok)

\* ssl_wait(STREAM_CONNECT) on the stream in slot s.
WaitConnect(s) ==
    /\ streams[s].open
    /\ \E a \in ConnectAnswers(streams[s]) :
        LET w == WaitedConnect(streams[s], a)
        IN  /\ streams' = [streams EXCEPT ![s] = w.stream]
            /\ fs' = w.fs
            /\ Store(w.statics)
            /\ poll' = [poll EXCEPT ![STREAM_CONNECT] = w.asks]
    /\ UNCHANGED <<init_status, listener, pc, history>>

\* The process configured in any order, and the followed stream with the
\* waits of its host.
WaitNext ==
    \/ SetPrivateKey
    \/ SetCertificate
    \/ SetCaCert
    \/ Listen
    \/ Unlisten
    \/ \E s \in IoStreams : Open(s) /\ UNCHANGED host
    \/ \E s \in IoStreams : Accept(s) /\ UNCHANGED host
    \/ \E s \in IoStreams : Connect(s) /\ UNCHANGED host
    \/ \E s \in IoStreams : Close(s) /\ UNCHANGED host
    \/ \E s \in IoStreams : Recv(s) /\ UNCHANGED host
    \/ \E s \in IoStreams : Send(s) /\ UNCHANGED host
    \/ \E s \in IoStreams : Run(s) /\ UNCHANGED host
    \/ \E s \in IoStreams : WaitConnect(s)

WaitSpec == Init /\ [][WaitNext]_vars

(* --------------------------- outbound bytes --------------------------- *)

\* A payload of n bytes none of which was part of an earlier payload of
\* the connection: byte k is the k-th byte ssl_send copied.
Fresh(n) == [i \in 1..n |-> history.next + i]

\* Whether a value returned by the transmit path is an error that ends
\* it.
tx_failed(retval) == retval \notin {0, EAGAIN}

\* ssl_send() on the followed stream, of a payload of fresh bytes.
SendBytes(s) ==
    /\ streams[s].connected
    /\ \E n \in 1..MaxLen :
        /\ history.next + n <= MaxBytes
        /\ \E script \in WriteAnswers(streams[s],
                                      IF streams[s].txbuf.null THEN n
                                      ELSE 0) :
            LET r == ssl_send(streams[s], Fresh(n), script)
            IN  /\ streams' = [streams EXCEPT ![s] = r.stream]
                /\ history' =
                     [given |-> IF r.retval = 0
                                THEN history.given \o Fresh(n)
                                ELSE history.given,
                      written |-> history.written \o r.wrote,
                      next |-> IF streams[s].txbuf.null
                               THEN history.next + n ELSE history.next,
                      failed |-> history.failed \/ tx_failed(r.retval),
                      lost |-> IF r.leaked THEN history.lost + 1
                               ELSE history.lost]
    /\ UNCHANGED <<config, fs, listener, poll, pc>>

\* ssl_run() on the followed stream.
RunBytes(s) ==
    /\ streams[s].open
    /\ \E script \in WriteAnswers(streams[s], Len(streams[s].txbuf.data)) :
        /\ streams' = [streams EXCEPT ![s] = ssl_run(streams[s], script)]
        /\ history' =
             IF streams[s].txbuf.null THEN history
             ELSE LET tx == ssl_do_tx(streams[s], script)
                  IN  [history EXCEPT
                         !.written = @ \o tx.wrote,
                         !.failed = @ \/ tx_failed(tx.retval)]
    /\ UNCHANGED <<config, fs, listener, poll, pc>>

\* ssl_close() on the followed stream: the connection and its bytes are
\* over.
CloseBytes(s) ==
    /\ Close(s)
    /\ history' = NoHistory
    /\ UNCHANGED <<poll, pc>>

\* The followed stream with its outbound bytes recorded.
HistoryNext ==
    \/ \E s \in IoStreams : Open(s) /\ UNCHANGED host
    \/ \E s \in IoStreams : Accept(s) /\ UNCHANGED host
    \/ \E s \in IoStreams : Connect(s) /\ UNCHANGED host
    \/ \E s \in IoStreams : Recv(s) /\ UNCHANGED host
    \/ \E s \in IoStreams : SendBytes(s)
    \/ \E s \in IoStreams : RunBytes(s)
    \/ \E s \in IoStreams : CloseBytes(s)

HistorySpec == IoInit /\ [][HistoryNext]_vars

(* ------------------------------ host loop ----------------------------- *)

\* The stream the host loop drives.
LoopStream == IoStream

\* Setting the stream up: ssl_open() or pssl_accept(), then ssl_connect()
\* until it returns 0.
LoopSetup ==
    /\ pc = "start"
    /\ \/ Open(LoopStream)
       \/ Accept(LoopStream)
       \/ Connect(LoopStream)
    /\ pc' = IF streams'[LoopStream].connected THEN "run" ELSE "start"
    /\ UNCHANGED <<poll, history>>

LoopRun ==
    /\ pc = "run"
    /\ Run(LoopStream)
    /\ pc' = "recv"
    /\ UNCHANGED <<poll, history>>

LoopRecv ==
    /\ pc = "recv"
    /\ Recv(LoopStream)
    /\ pc' = "send"
    /\ UNCHANGED <<poll, history>>

\* The host has something to send in this iteration, or has not.
LoopSend ==
    /\ pc = "send"
    /\ \/ Send(LoopStream)
       \/ UNCHANGED <<config, fs, listener, streams>>
    /\ pc' = "run_wait"
    /\ UNCHANGED <<poll, history>>

LoopRunWait ==
    /\ pc = "run_wait"
    /\ poll' = [poll EXCEPT !["run_wait"] = ssl_run_wait(streams[LoopStream])]
    /\ pc' = STREAM_RECV
    /\ UNCHANGED <<config, fs, listener, streams, history>>

LoopWaitRecv ==
    /\ pc = STREAM_RECV
    /\ poll' = [poll EXCEPT
                  ![STREAM_RECV] = ssl_wait(streams[LoopStream], STREAM_RECV)]
    /\ pc' = STREAM_SEND
    /\ UNCHANGED <<config, fs, listener, streams, history>>

LoopWaitSend ==
    /\ pc = STREAM_SEND
    /\ poll' = [poll EXCEPT
                  ![STREAM_SEND] = ssl_wait(streams[LoopStream], STREAM_SEND)]
    /\ pc' = "poll_block"
    /\ UNCHANGED <<config, fs, listener, streams, history>>

\* poll_block() returns: one of the registered wake conditions fired, and
\* the registrations are gone.
LoopWake ==
    /\ pc = "poll_block"
    /\ \E w \in DOMAIN poll : poll[w].immediate \/ poll[w].events # {}
    /\ poll' = NoPoll
    /\ pc' = "run"
    /\ UNCHANGED <<config, fs, listener, streams, history>>

\* The host gives the stream up between two calls.
LoopClose ==
    /\ pc \notin {"start", "poll_block"}
    /\ Close(LoopStream)
    /\ poll' = NoPoll
    /\ pc' = "start"
    /\ UNCHANGED history

LoopNext ==
    \/ LoopSetup
    \/ LoopRun
    \/ LoopRecv
    \/ LoopSend
    \/ LoopRunWait
    \/ LoopWaitRecv
    \/ LoopWaitSend
    \/ LoopWake
    \/ LoopClose

LoopSpec == IoInit /\ [][LoopNext]_vars

(* ----------------------------- properties ----------------------------- *)

\* The paths the CA certificate can be bootstrapped to.
NewPaths == {p \in Paths : p \notin {"cacert.pem", "bad.pem"}}

\* The session of 'sv' was created with verification relaxed to none.
Relaxed(sv) == sv.open /\ sv.verify_mode = SSL_VERIFY_NONE

\* C1: ssl_connect returns 0 only when bootstrap mode is not armed and the
\* stream's session requires peer verification: whatever the environment
\* answers a call on any open stream, a return of 0 comes with
\* bootstrap_ca_cert false and SSL_VERIFY_PEER in the session's mode; no
\* call on a client created relaxed returns 0, and every stream that has
\* been returned 0 verifies its peer.
C1_ConnectSuccess ==
    \A s \in Streams :
        /\ streams[s].open =>
            \A a \in ConnectAnswers(streams[s]) :
                Connected(streams[s], a).retval = 0 =>
                    /\ ~bootstrap_ca_cert
                    /\ SSL_VERIFY_PEER \in streams[s].verify_mode
                    /\ ~Relaxed(streams[s])
        /\ streams[s].connected => SSL_VERIFY_PEER \in streams[s].verify_mode

\* C1: a relaxed client has completed its handshake and has not been
\* established, the bootstrap is over and its file written, and another
\* stream is established.
C1_Witness ==
    \E s, r \in Streams :
        /\ s # r
        /\ streams[s].connected
        /\ Relaxed(streams[r])
        /\ streams[r].type = CLIENT
        /\ streams[r].handshake = "done"
        /\ ~streams[r].connected
        /\ ~bootstrap_ca_cert
        /\ ca_cert_file \in NewPaths
        /\ fs[ca_cert_file].exists

\* C2: has_ca_cert and bootstrap_ca_cert are never both true.
C2_FlagsExclusive == ~(has_ca_cert /\ bootstrap_ca_cert)

\* C3: the host loop never goes to sleep in poll_block with the payload
\* still buffered unless it has asked for a wake that the write side
\* answers to: an immediate wake, or the events ssl_run_wait registers for
\* tx_want.  What ssl_wait(STREAM_RECV) registers for rx_want answers to
\* inbound traffic.
C3_NoStall ==
    (pc = "poll_block" /\ ~streams[LoopStream].txbuf.null) =>
        \/ \E w \in DOMAIN poll : poll[w].immediate
        \/ poll["run_wait"].events # {}

\* The direction a call of SSL_read or SSL_write that answered 'a' blocked
\* on.
BlockedOn(a) ==
    IF a.ret <= 0 /\ a.error = SSL_ERROR_WANT_READ THEN SSL_READING
    ELSE IF a.ret <= 0 /\ a.error = SSL_ERROR_WANT_WRITE THEN SSL_WRITING
    ELSE SSL_NOTHING

\* C4: after ssl_recv, whatever SSL_read answers, rx_want is the direction
\* the call blocked on when it returns EAGAIN for wanting I/O and
\* SSL_NOTHING otherwise; tx_want is SSL_NOTHING when the session state
\* differs across the call and its value before the call when it does not.
C4_RecvWants ==
    \A s \in IoStreams :
        streams[s].connected =>
            \A n \in 1..MaxRecv : \A a \in Answers(n) :
                LET before == streams[s]
                    after == ssl_recv(before, a).stream
                IN  /\ after.rx_want = BlockedOn(a)
                    /\ BlockedOn(a) # SSL_NOTHING =>
                           ssl_recv(before, a).retval = EAGAIN
                    /\ after.tx_want =
                           IF a.state # before.ssl_state THEN SSL_NOTHING
                           ELSE before.tx_want
                    /\ after.tx_want \in {SSL_NOTHING, before.tx_want}

\* C4: a payload is buffered behind a write that blocked, a later ssl_recv
\* has moved the session state and cleared tx_want, and that ssl_recv
\* blocked itself.
C4_Witness ==
    \E s \in IoStreams :
        /\ streams[s].connected
        /\ ~streams[s].txbuf.null
        /\ streams[s].tx_want = SSL_NOTHING
        /\ streams[s].rx_want # SSL_NOTHING

\* The session state changes across one of the calls of SSL_write that
\* answer 'script', the session being in 'state' before the first.
RECURSIVE StateChanges(_, _)
StateChanges(state, script) ==
    /\ script # <<>>
    /\ \/ Head(script).state # state
       \/ StateChanges(Head(script).state, Tail(script))

\* What C5 says of the stream 'after' a call that wrote from 'before' with
\* SSL_write answering 'script'.
WriteWants(before, after, script) ==
    /\ after.tx_want = BlockedOn(script[Len(script)])
    /\ after.rx_want = IF StateChanges(before.ssl_state, script)
                       THEN SSL_NOTHING ELSE before.rx_want

\* C5: after ssl_send or ssl_run has attempted a write, whatever the calls
\* of SSL_write in its loop answer, tx_want is the direction the last
\* call blocked on (SSL_NOTHING when it did not block), and rx_want is
\* SSL_NOTHING when the session state changed across one of the calls and
\* its value before the call when it never changed.
C5_WriteWants ==
    \A s \in IoStreams :
        LET before == streams[s] IN
        /\ before.connected /\ before.txbuf.null =>
            \A buffer \in Payloads : \A script \in Scripts(Len(buffer)) :
                WriteWants(before, ssl_send(before, buffer, script).stream,
                           script)
        /\ before.open /\ ~before.txbuf.null =>
            \A script \in Scripts(Len(before.txbuf.data)) :
                WriteWants(before, ssl_run(before, script), script)

\* C5: a write loop has written part of the payload and has blocked on
\* the rest, one byte is left buffered and the session is renegotiating,
\* and rx_want holds a direction for the next write to clear or to keep.
C5_Witness ==
    \E s \in IoStreams :
        /\ streams[s].connected
        /\ ~streams[s].txbuf.null
        /\ Len(streams[s].txbuf.data) = 1
        /\ streams[s].tx_want # SSL_NOTHING
        /\ streams[s].rx_want # SSL_NOTHING
        /\ streams[s].ssl_state = SSL_ST_RENEGOTIATE

\* C6: of the clients created while bootstrap mode is armed at most one
\* completes the bootstrap.  In every step a file that exists stays as it
\* is; a step that creates a file is taken with bootstrap mode armed and
\* leaves it disarmed with has_ca_cert set, so that the next relaxed
\* client to complete its handshake finds the bootstrap over; and a
\* relaxed client is never established: every call of ssl_connect on it
\* returns an error.
C6_BootstrapRace ==
    /\ [](\A s \in Streams :
            Relaxed(streams[s]) =>
                \A a \in ConnectAnswers(streams[s]) :
                    Connected(streams[s], a).retval # 0)
    /\ [][/\ \A p \in Paths : fs[p].exists => fs'[p] = fs[p]
          /\ fs' # fs => /\ bootstrap_ca_cert
                         /\ ~bootstrap_ca_cert'
                         /\ has_ca_cert'
                         /\ Cardinality({p \in Paths : fs'[p] # fs[p]}) = 1
          /\ \A s \in Streams :
                Relaxed(streams[s]) /\ Relaxed(streams'[s]) =>
                    ~streams'[s].connected]_vars

\* C6: two clients created relaxed have both completed their handshakes;
\* the bootstrap is over, its file exists, and neither is established.
C6_Witness ==
    /\ \A s \in Streams :
        /\ Relaxed(streams[s])
        /\ streams[s].type = CLIENT
        /\ streams[s].handshake = "done"
        /\ ~streams[s].connected
    /\ ~bootstrap_ca_cert
    /\ has_ca_cert
    /\ ca_cert_file \in NewPaths
    /\ fs[ca_cert_file].exists

\* The answers on which ssl_connect on 'sv' runs the bootstrap with a
\* chain that ends in a self-signed certificate.
GoodChain(a) ==
    Len(a.chain) > 0 /\ a.chain[Len(a.chain)] \in SelfSigned

\* C7: with bootstrap mode armed on a path that does not exist, a client's
\* ssl_connect whose handshake succeeds on a chain that ends in a
\* self-signed certificate, and whose file operations succeed, leaves that
\* last certificate in the file, bootstrap_ca_cert false and has_ca_cert
\* true, and returns EPROTO.  With bootstrap mode not armed, a client that
\* ssl_open creates verifies its peer, and ssl_connect on such a client
\* returns 0 when its handshake succeeds.
C7_FirstContact ==
    /\ \A s \in Streams :
        LET sv == streams[s] IN
        sv.open /\ sv.type = CLIENT =>
            \A a \in ConnectAnswers(sv) :
                LET r == Connected(sv, a) IN
                /\ (/\ bootstrap_ca_cert
                    /\ ~fs[ca_cert_file].exists
                    /\ a.probe = 0 /\ a.ans = HandshakeDone
                    /\ GoodChain(a) /\ a.fio = "ok") =>
                        /\ r.retval = EPROTO
                        /\ r.fs = [fs EXCEPT ![ca_cert_file] =
                                      FileOf(<<a.chain[Len(a.chain)]>>)]
                        /\ ~r.statics.bootstrap_ca_cert
                        /\ r.statics.has_ca_cert
                /\ (/\ ~bootstrap_ca_cert
                    /\ SSL_VERIFY_PEER \in sv.verify_mode
                    /\ a.probe = 0 /\ a.ans = HandshakeDone) =>
                        /\ r.retval = 0
                        /\ r.stream.connected
    /\ ~bootstrap_ca_cert =>
        \A a \in OpenAnswers :
            Opened(a).retval = 0 =>
                /\ Opened(a).stream.type = CLIENT
                /\ SSL_VERIFY_PEER \in Opened(a).stream.verify_mode

\* C7: the bootstrap has written the self-signed certificate that ended
\* the peer's chain, the trust store holds it and nothing else, and a
\* client opened since is established.
C7_Witness ==
    /\ ~bootstrap_ca_cert
    /\ has_ca_cert
    /\ ca_cert_file \in NewPaths
    /\ fs[ca_cert_file] = FileOf(<<"root">>)
    /\ trust_store = {"root"}
    /\ \E s \in Streams : streams[s].type = CLIENT /\ streams[s].connected

\* C8: when ssl_connect runs the bootstrap and the peer's chain is empty
\* or its last certificate is not self-signed, it returns EPROTO and
\* leaves the file system and the statics (bootstrap_ca_cert, has_ca_cert
\* among them) as they were; when instead a file operation fails, it
\* returns an error and leaves them as they were too.
C8_RejectionKeepsState ==
    \A s \in Streams :
        streams[s].open =>
            \A a \in ConnectAnswers(streams[s]) :
                LET r == Connected(streams[s], a) IN
                Boots(streams[s], a) =>
                    /\ ~GoodChain(a) =>
                        /\ r.retval = EPROTO
                        /\ r.fs = fs
                        /\ r.statics = Statics
                    /\ GoodChain(a) /\ a.fio # "ok" =>
                        /\ r.retval # 0
                        /\ r.fs = fs
                        /\ r.statics = Statics

\* C8: a relaxed client has completed its handshake and run the bootstrap,
\* which failed: bootstrap mode is still armed, has_ca_cert is false and
\* the file does not exist.
C8_Witness ==
    \E s \in Streams :
        /\ Relaxed(streams[s])
        /\ streams[s].handshake = "done"
        /\ bootstrap_ca_cert
        /\ ~has_ca_cert
        /\ ca_cert_file \in NewPaths
        /\ ~fs[ca_cert_file].exists

\* C9, as stated: whenever ssl_connect runs the bootstrap it returns
\* EPROTO, whatever the step the bootstrap ends at.
C9_AlwaysProtocolError ==
    \A s \in Streams :
        streams[s].open =>
            \A a \in ConnectAnswers(streams[s]) :
                Boots(streams[s], a) =>
                    Connected(streams[s], a).retval = EPROTO

\* C9, amended: whenever ssl_connect runs the bootstrap it returns an
\* error, never 0: EPROTO when the chain is empty, when its last
\* certificate is not self-signed, and when the file has been written
\* (whether or not the trust store then loads); the errno of open,
\* fdopen or fclose when that call fails; and EIO when PEM_write_X509
\* fails.
C9_BootstrapError ==
    \A s \in Streams :
        streams[s].open =>
            \A a \in ConnectAnswers(streams[s]) :
                LET r == Connected(streams[s], a) IN
                Boots(streams[s], a) =>
                    /\ r.retval # 0
                    /\ ~GoodChain(a) => r.retval = EPROTO
                    /\ (GoodChain(a) /\ r.fs # fs) => r.retval = EPROTO
                    /\ (GoodChain(a) /\ r.fs = fs) =>
                        r.retval =
                            CASE fs[ca_cert_file].exists -> EEXIST
                              [] a.fio = "open" -> EACCES
                              [] a.fio = "fdopen" -> ENOMEM
                              [] a.fio = "PEM_write_X509" -> EIO
                              [] a.fio = "fclose" -> ENOSPC

\* C9: the bootstrap has run to its last step and failed there: the file
\* is written and the flags are flipped, and the trust store is empty; the
\* client that ran it is not established.
C9_Witness ==
    \E s \in Streams :
        /\ Relaxed(streams[s])
        /\ streams[s].handshake = "done"
        /\ ~streams[s].connected
        /\ ~bootstrap_ca_cert
        /\ has_ca_cert
        /\ ca_cert_file \in NewPaths
        /\ fs[ca_cert_file].exists
        /\ trust_store = {}

\* C10: ssl_connect on a stream that pssl_accept created does not run the
\* bootstrap: whatever the environment answers, it leaves the file system
\* and the statics as they were.
C10_ClientOnly ==
    \A s \in Streams :
        (streams[s].open /\ streams[s].type = SERVER) =>
            \A a \in ConnectAnswers(streams[s]) :
                /\ ~Boots(streams[s], a)
                /\ Connected(streams[s], a).fs = fs
                /\ Connected(streams[s], a).statics = Statics

(* ------------------------------ ssl_send ------------------------------ *)

\* The payloads a caller hands to ssl_send, and what can be left of one
\* after part of it was written.
Suffixes(buffer) == {SubSeq(buffer, k, Len(buffer)) : k \in 1..Len(buffer)}

\* C11: ssl_send on a connected stream that still has a payload buffered
\* returns EAGAIN whatever the new payload is, without copying it, writing
\* a byte of it or calling the TLS layer, and leaves txbuf, rx_want,
\* tx_want and the session as they were: the stream is the same after the
\* call.  The buffered payload is what is left of one payload.
C11_Backpressure ==
    \A s \in Streams :
        (streams[s].connected /\ ~streams[s].txbuf.null) =>
            /\ \E p \in Payloads : streams[s].txbuf.data \in Suffixes(p)
            /\ \A buffer \in Payloads :
                LET r == ssl_send(streams[s], buffer, <<>>)
                IN  /\ r.retval = EAGAIN
                    /\ r.stream = streams[s]
                    /\ r.wrote = <<>>
                    /\ ~r.leaked

\* C11: a connected stream holds a whole payload of more than one byte,
\* none of which the TLS layer has taken: a further ssl_send meets it.
C11_Witness ==
    \E s \in Streams :
        /\ streams[s].connected
        /\ ~streams[s].txbuf.null
        /\ streams[s].txbuf.data \in Payloads
        /\ Len(streams[s].txbuf.data) > 1

\* The number of bytes the calls of SSL_write answering 'script' took.
RECURSIVE Taken(_)
Taken(script) ==
    IF script = <<>> THEN 0
    ELSE (IF Head(script).ret > 0 THEN Head(script).ret ELSE 0)
         + Taken(Tail(script))

\* C12: ssl_send on a connected stream with no payload buffered, whatever
\* the calls of SSL_write answer: the bytes written are the first bytes of
\* the payload, as many as the calls took; when the last call took the
\* end of the payload, ssl_send returns 0 and txbuf is NULL; when the last
\* call wants to read or to write, ssl_send returns 0 and txbuf holds the
\* payload without the bytes taken; when the last call reports a clean
\* close, ssl_send returns EPIPE and txbuf is NULL; on any other answer it
\* returns what interpret_ssl_error makes of it, which is neither 0 nor
\* EAGAIN, and txbuf is NULL.
C12_SendOutcomes ==
    \A s \in Streams :
        (streams[s].connected /\ streams[s].txbuf.null) =>
            \A buffer \in Payloads : \A script \in Scripts(Len(buffer)) :
                LET r == ssl_send(streams[s], buffer, script)
                    last == script[Len(script)]
                    n == Taken(script)
                IN  /\ r.wrote = SubSeq(buffer, 1, n)
                    /\ CASE last.ret > 0 ->
                               /\ n = Len(buffer)
                               /\ r.retval = 0
                               /\ r.stream.txbuf = NoBuf
                          [] BlockedOn(last) # SSL_NOTHING ->
                               /\ n < Len(buffer)
                               /\ r.retval = 0
                               /\ r.stream.txbuf =
                                    Buf(SubSeq(buffer, n + 1, Len(buffer)))
                          [] last.error = SSL_ERROR_ZERO_RETURN ->
                               /\ r.retval = EPIPE
                               /\ r.stream.txbuf = NoBuf
                          [] OTHER ->
                               /\ r.retval = interpret_ssl_error(last).retval
                               /\ r.retval \notin {0, EAGAIN}
                               /\ r.stream.txbuf = NoBuf

\* C12: ssl_send has returned with the first byte of its payload written
\* and the write of the second blocked: the second byte alone is buffered
\* and tx_want holds the direction the write blocked on.
C12_Witness ==
    \E s \in Streams :
        /\ streams[s].connected
        /\ ~streams[s].txbuf.null
        /\ \E p \in Payloads :
              /\ Len(p) > 1
              /\ streams[s].txbuf.data = SubSeq(p, 2, Len(p))
        /\ streams[s].tx_want # SSL_NOTHING

(* ------------------------------ ordering ------------------------------ *)

IsPrefix(u, v) == Len(u) <= Len(v) /\ u = SubSeq(v, 1, Len(u))

\* C13, in its strongest form: at every point of a connection the bytes SSL_write
\* has taken are, in order, a prefix of the concatenation in call order
\* of the payloads for which ssl_send returned 0.
C13_Prefix == IsPrefix(history.written, history.given)

\* C13: at every point of a connection the bytes SSL_write has taken are
\* bytes of payloads that ssl_send copied, in the order of the calls and
\* of the bytes in each payload, none of them twice; and as long as no
\* ssl_send or ssl_run of the connection has had a write end in a clean
\* close or an error, they are a prefix of the concatenation in call order
\* of the payloads for which ssl_send returned 0.
C13_InOrder ==
    LET w == history.written IN
    /\ \A i \in 1..Len(w) : w[i] \in 1..history.next
    /\ \A i, j \in 1..Len(w) : i < j => w[i] < w[j]
    /\ ~history.failed => IsPrefix(w, history.given)

\* C13: no write of the connection has failed, and SSL_write has taken
\* more bytes than one payload holds: the bytes of a second payload have
\* followed those of the first.
C13_Witness ==
    /\ ~history.failed
    /\ Len(history.written) > MaxLen
    /\ \E s \in Streams : streams[s].connected

(* --------------------------- stream creation -------------------------- *)

\* What a stream needs of the configuration.
Configured ==
    /\ has_private_key
    /\ has_certificate
    /\ has_ca_cert \/ bootstrap_ca_cert
    /\ key_matches

\* What C14 says of a call that hands a socket to new_ssl_stream and gets
\* 'r': a stream is created only when the configuration is complete, and
\* with an incomplete one the call returns ENOPROTOOPT, creates no stream
\* and has closed the socket.
Creates(r) ==
    /\ r.fd \in {"owned", "closed"}
    /\ r.stream.open <=> r.retval = 0
    /\ r.stream.open <=> r.fd = "owned"
    /\ r.stream.open => Configured
    /\ ~Configured =>
        /\ r.retval = ENOPROTOOPT
        /\ r.stream = NoStream
        /\ r.fd = "closed"

\* C14: in every state, whatever the system answers: new_ssl_stream, the
\* ssl_open that has a socket and the pssl_accept that has accepted a
\* connection create a stream only if has_private_key, has_certificate,
\* has_ca_cert or bootstrap_ca_cert, and the key matching the
\* certificate all hold; otherwise they return ENOPROTOOPT, produce no
\* stream and close the socket.  A call that never gets a socket creates
\* no stream either.
C14_NeedsConfiguration ==
    /\ \A type \in {CLIENT, SERVER}, sys \in SysAnswers :
        \A state \in {STATE_TCP_CONNECTING, STATE_SSL_CONNECTING} :
            Creates(new_ssl_stream(type, state, sys))
    /\ \A a \in OpenAnswers :
        IF ssl_init(a.init_ok) = 0 /\ a.tcp # "failed"
        THEN Creates(Opened(a))
        ELSE Opened(a).stream = NoStream /\ Opened(a).retval # 0
    /\ \A a \in AcceptedAnswers :
        IF a.acc = "connection" /\ a.nonblocking_ok
        THEN Creates(Accepted(a))
        ELSE Accepted(a).stream = NoStream /\ Accepted(a).retval # 0

\* C14: pssl_accept has created a stream with no CA certificate loaded
\* and bootstrap mode armed: of "has_ca_cert or bootstrap_ca_cert" the
\* second alone let it through.
C14_Witness ==
    \E s \in Streams :
        /\ streams[s].open
        /\ streams[s].type = SERVER
        /\ streams[s].handshake = "init"
        /\ ~has_ca_cert
        /\ bootstrap_ca_cert

(* ------------------------------ ssl_recv ------------------------------ *)

\* C15: ssl_recv on a connected stream, whatever SSL_read answers: a
\* positive answer returns that number of bytes; a clean close returns 0;
\* an answer that wants to read or to write returns EAGAIN and leaves
\* rx_want at that direction; any other answer returns an error with
\* rx_want at SSL_NOTHING; and ssl_recv returns EAGAIN only when it leaves
\* rx_want at SSL_READING or SSL_WRITING.
C15_RecvOutcomes ==
    \A s \in Streams :
        streams[s].connected =>
            \A n \in 1..MaxRecv : \A a \in Answers(n) :
                LET r == ssl_recv(streams[s], a) IN
                /\ CASE a.ret > 0 -> r.retval = a.ret
                      [] a.error = SSL_ERROR_ZERO_RETURN -> r.retval = 0
                      [] BlockedOn(a) # SSL_NOTHING ->
                           /\ r.retval = EAGAIN
                           /\ r.stream.rx_want = BlockedOn(a)
                      [] OTHER ->
                           /\ r.retval \notin {0, EAGAIN}
                           /\ r.stream.rx_want = SSL_NOTHING
                /\ r.retval = EAGAIN =>
                       r.stream.rx_want \in {SSL_READING, SSL_WRITING}

(* ----------------------------- ssl_connect ---------------------------- *)

\* Whether ssl_connect on 'sv' answered 'a' gets as far as the handshake.
Handshakes(sv, a) == ~(sv.state = STATE_TCP_CONNECTING /\ a.probe # 0)

\* C16: ssl_connect on a stream in STATE_TCP_CONNECTING whose probe has
\* not succeeded returns what the probe returned, EAGAIN for a connection
\* still in progress and the error of the connection otherwise, and
\* leaves the stream as it was, in STATE_TCP_CONNECTING; on a probe that
\* succeeded it leaves the stream in STATE_SSL_CONNECTING and has run the
\* handshake in the same call.  No call of ssl_connect leaves a stream in
\* STATE_TCP_CONNECTING that was not in it, and a stream in
\* STATE_TCP_CONNECTING has had no call of SSL_connect or SSL_accept; and
\* in no step does a stream that stays open go from STATE_SSL_CONNECTING
\* to STATE_TCP_CONNECTING.
C16_ConnectPhases ==
    /\ [](\A s \in Streams :
            LET sv == streams[s] IN
            sv.open =>
              /\ sv.state = STATE_TCP_CONNECTING =>
                    /\ sv.handshake = "init"
                    /\ sv.ssl_state = SSL_ST_BEFORE
                    /\ ~sv.shut
                    /\ ~sv.connected
              /\ \A a \in ConnectAnswers(sv) :
                    LET r == Connected(sv, a) IN
                    /\ r.stream.state = STATE_TCP_CONNECTING =>
                           sv.state = STATE_TCP_CONNECTING
                    /\ sv.state = STATE_TCP_CONNECTING =>
                          IF a.probe # 0
                          THEN /\ r.retval = a.probe
                               /\ r.step = "tcp"
                               /\ r.stream = sv
                          ELSE /\ r.stream.state = STATE_SSL_CONNECTING
                               /\ r.step # "tcp"
                               /\ r.stream.handshake =
                                    IF a.ans = HandshakeDone THEN "done"
                                    ELSE "init")
    /\ [][\A s \in Streams :
            (/\ streams[s].open /\ streams'[s].open
             /\ streams[s].state = STATE_SSL_CONNECTING)
            => streams'[s].state = STATE_SSL_CONNECTING]_vars

\* C16: a stream in STATE_TCP_CONNECTING on which one call of ssl_connect
\* can see the probe succeed and the handshake complete.
C16_Witness ==
    \E s \in Streams :
        /\ streams[s].open
        /\ streams[s].state = STATE_TCP_CONNECTING
        /\ \E a \in ConnectAnswers(streams[s]) :
              /\ a.probe = 0
              /\ Connected(streams[s], a).stream.connected

\* C17: ssl_connect that runs the handshake returns EAGAIN exactly when
\* SSL_connect or SSL_accept returns a negative value with
\* SSL_ERROR_WANT_READ or SSL_ERROR_WANT_WRITE; on every other answer
\* than success it shuts the socket down in both directions and returns
\* EPROTO, and it leaves rx_want, tx_want, the statics and the file system
\* as they were.
C17_HandshakeResult ==
    \A s \in Streams :
        LET sv == streams[s] IN
        sv.open =>
            \A a \in ConnectAnswers(sv) :
                LET r == Connected(sv, a) IN
                Handshakes(sv, a) =>
                    /\ r.retval = EAGAIN <=> a.ans \in HandshakeBlocked
                    /\ a.ans \in HandshakeBlocked => ~r.stream.shut
                    /\ a.ans \notin HandshakeBlocked \cup {HandshakeDone} =>
                        /\ r.retval = EPROTO
                        /\ r.step = "shutdown"
                        /\ r.stream.shut
                    /\ a.ans # HandshakeDone =>
                        /\ r.stream.rx_want = sv.rx_want
                        /\ r.stream.tx_want = sv.tx_want
                        /\ r.statics = Statics
                        /\ r.fs = fs

\* C17: the handshake of a stream has failed before it completed, and
\* ssl_connect has shut its socket down.
C17_Witness ==
    \E s \in Streams :
        /\ streams[s].open
        /\ streams[s].shut
        /\ streams[s].handshake = "init"
        /\ ~streams[s].connected

(* ----------------------------- trust store ---------------------------- *)

\* C18: has_ca_cert is true only in states where the trust store has been
\* loaded from a CA file; and whatever the environment answers, a
\* bootstrap whose load of the trust store fails leaves bootstrap_ca_cert
\* and has_ca_cert as they were.
C18_CaCertLoaded ==
    /\ has_ca_cert => trust_store # {}
    /\ \A s \in Streams :
        streams[s].open =>
            \A a \in ConnectAnswers(streams[s]) :
                LET r == Connected(streams[s], a) IN
                (Boots(streams[s], a) /\ r.step = "load") =>
                    /\ r.statics.bootstrap_ca_cert = bootstrap_ca_cert
                    /\ r.statics.has_ca_cert = has_ca_cert

(* --------------------------- payload copies --------------------------- *)

\* C19: in every state of a connection, no copy that ssl_send made of a
\* payload is left allocated with nothing referring to it: every copy is
\* the txbuf of the stream or has been deleted, also after an ssl_send
\* that ended in EPIPE or another error.
C19_CopiesReleased == history.lost = 0

(* ------------------------------- ssl_wait ----------------------------- *)

\* A wait that registers a poll and does not ask for an immediate wake
\* stays one from 'before' to 'after'.
StaysPolled(before, after, wait) ==
    ~ssl_wait(before, wait).immediate => ~ssl_wait(after, wait).immediate

\* C20: on a connected stream, whatever the library answers: after an
\* ssl_recv that returned EAGAIN, ssl_wait(STREAM_RECV) calls poll_fd_wait
\* for the events of rx_want and does not call poll_immediate_wake;
\* ssl_wait(STREAM_SEND) calls poll_immediate_wake exactly when txbuf is
\* NULL; an ssl_recv that blocks with the session state unchanged leaves
\* what ssl_wait(STREAM_SEND) and ssl_run_wait ask as it was; and an
\* ssl_send or ssl_run whose write blocks with the session state unchanged
\* does not turn the poll that ssl_wait(STREAM_RECV) registers into an
\* immediate wake.
C20_NoSpuriousWake ==
    \A s \in Streams :
        LET sv == streams[s] IN
        sv.connected =>
            /\ ssl_wait(sv, STREAM_SEND).immediate <=> sv.txbuf.null
            /\ \A n \in 1..MaxRecv : \A a \in Answers(n) :
                LET r == ssl_recv(sv, a) IN
                /\ r.retval = EAGAIN =>
                    /\ r.stream.rx_want \in {SSL_READING, SSL_WRITING}
                    /\ ssl_wait(r.stream, STREAM_RECV) =
                         Asks(FALSE, {want_to_poll_events(r.stream.rx_want)})
                /\ (BlockedOn(a) # SSL_NOTHING /\ a.state = sv.ssl_state) =>
                    /\ ssl_wait(r.stream, STREAM_SEND) =
                         ssl_wait(sv, STREAM_SEND)
                    /\ ssl_run_wait(r.stream) = ssl_run_wait(sv)
            /\ sv.txbuf.null =>
                \A buffer \in Payloads : \A script \in Scripts(Len(buffer)) :
                    (/\ BlockedOn(script[Len(script)]) # SSL_NOTHING
                     /\ ~StateChanges(sv.ssl_state, script)) =>
                        StaysPolled(sv, ssl_send(sv, buffer, script).stream,
                                    STREAM_RECV)
            /\ ~sv.txbuf.null =>
                /\ \A buffer \in Payloads :
                    StaysPolled(sv, ssl_send(sv, buffer, <<>>).stream,
                                STREAM_RECV)
                /\ \A script \in Scripts(Len(sv.txbuf.data)) :
                    (/\ BlockedOn(script[Len(script)]) # SSL_NOTHING
                     /\ ~StateChanges(sv.ssl_state, script)) =>
                        StaysPolled(sv, ssl_run(sv, script), STREAM_RECV)

(* --------------------------- values of ssl_recv ----------------------- *)

\* C27: on a connected stream, for every size asked of ssl_recv, the value
\* ssl_recv returns when SSL_read has read bytes differs from every value
\* it returns when SSL_read has blocked or failed: no value stands both
\* for a number of bytes read and for EAGAIN, an errno, EIO or EPROTO.
C27_RecvDistinct ==
    \A s \in Streams :
        streams[s].connected =>
            \A n \in 1..MaxRecv : \A a, b \in Answers(n) :
                (/\ a.ret > 0
                 /\ b.ret <= 0
                 /\ b.error # SSL_ERROR_ZERO_RETURN) =>
                    ssl_recv(streams[s], a).retval
                        # ssl_recv(streams[s], b).retval

(* -------------------------- want_to_poll_events ----------------------- *)

\* The events poll_fd_wait can be called with: the values
\* want_to_poll_events returns.
PollEvents == {POLLIN, POLLOUT}

\* C21: want_to_poll_events is never called with SSL_NOTHING.  In every
\* state and whatever the environment answers, ssl_run_wait and
\* ssl_wait(STREAM_RECV) ask only for POLLIN or POLLOUT; and
\* ssl_wait(STREAM_CONNECT) asks for an immediate wake when its
\* stream_connect returns other than EAGAIN, for POLLOUT when the stream
\* is then in STATE_TCP_CONNECTING, and otherwise for the direction
\* SSL_want gives, which is SSL_READING or SSL_WRITING after the handshake
\* call that made ssl_connect return EAGAIN.  No wait has registered
\* anything else.
C21_WantReached ==
    /\ \A w \in DOMAIN poll : poll[w].events \subseteq PollEvents
    /\ \A s \in Streams :
        LET sv == streams[s] IN
        sv.open =>
            /\ ssl_run_wait(sv).events \subseteq PollEvents
            /\ ssl_wait(sv, STREAM_RECV).events \subseteq PollEvents
            /\ \A a \in ConnectAnswers(sv) :
                LET w == WaitedConnect(sv, a)
                    c == stream_connect(sv, a.probe, a.ans, a.chain, a.fio,
                                        a.load_ok)
                IN  /\ w.asks.events \subseteq PollEvents
                    /\ w.asks.immediate <=> c.retval # EAGAIN
                    /\ c.retval = EAGAIN =>
                          w.asks.events =
                            IF w.stream.state = STATE_TCP_CONNECTING
                            THEN {POLLOUT}
                            ELSE IF a.ans.error = SSL_ERROR_WANT_READ
                            THEN {POLLIN} ELSE {POLLOUT}

\* C21: ssl_wait(STREAM_CONNECT) has registered the direction of a
\* handshake that wants to read, on a stream in STATE_SSL_CONNECTING that
\* is not connected.
C21_Witness ==
    \E s \in Streams :
        /\ streams[s].open
        /\ ~streams[s].connected
        /\ streams[s].state = STATE_SSL_CONNECTING
        /\ poll[STREAM_CONNECT] = Asks(FALSE, {POLLIN})

(* ------------------------------- ssl_run ------------------------------ *)

\* C22: ssl_run on a stream with no payload buffered leaves the stream as
\* it was, whatever the library would answer: it makes no call.  ssl_run
\* on a stream with a payload buffered, whatever the calls of SSL_write
\* answer: when the last call wants to read or to write, txbuf holds the
\* payload without the bytes the calls took; when the last call took the
\* end of the payload, reported a clean close or failed, txbuf is NULL.
C22_RunStep ==
    \A s \in Streams :
        LET sv == streams[s] IN
        sv.open =>
            IF sv.txbuf.null
            THEN \A script \in Scripts(MaxLen) \cup {<<>>} :
                    ssl_run(sv, script) = sv
            ELSE \A script \in Scripts(Len(sv.txbuf.data)) :
                    LET after == ssl_run(sv, script)
                        n == Taken(script)
                    IN  after.txbuf =
                          IF BlockedOn(script[Len(script)]) # SSL_NOTHING
                          THEN Buf(SubSeq(sv.txbuf.data, n + 1,
                                          Len(sv.txbuf.data)))
                          ELSE NoBuf

\* C22: of a payload of the greatest length only the last byte is left
\* buffered, behind a write that wants to write, in a session that is not
\* renegotiating.
C22_Witness ==
    \E s \in Streams :
        /\ streams[s].connected
        /\ streams[s].txbuf = Buf(<<MaxLen>>)
        /\ streams[s].tx_want = SSL_WRITING
        /\ streams[s].ssl_state = SSL_ST_OK

(* ------------------------------ ssl_close ----------------------------- *)

\* The number of times 'call' is in 'calls'.
Times(call, calls) == Cardinality({i \in 1..Len(calls) : calls[i] = call})

\* C23: ssl_close on an open stream, in either connecting state or
\* connected, with or without a payload buffered, whatever rx_want and
\* tx_want are and whatever SSL_shutdown answers: the slot is free
\* afterwards; the buffered payload is deleted and no call writes it;
\* SSL_shutdown is called once; SSL_free and close are called once each,
\* SSL_free first.
C23_CloseUnconditional ==
    \A s \in Streams :
        LET sv == streams[s] IN
        sv.open =>
            \A ans \in ShutdownAnswers :
                LET r == ssl_close(sv, ans) IN
                /\ r.stream = NoStream
                /\ ~r.stream.open
                /\ r.stream.txbuf.null
                /\ r.deleted = sv.txbuf
                /\ Times("SSL_write", r.calls) = 0
                /\ Times("SSL_shutdown", r.calls) = 1
                /\ Times("SSL_free", r.calls) = 1
                /\ Times("close", r.calls) = 1
                /\ \E i, j \in 1..Len(r.calls) :
                      /\ i < j
                      /\ r.calls[i] = "SSL_free"
                      /\ r.calls[j] = "close"

\* C23: a connected stream with a payload buffered behind a blocked write
\* and a blocked read, which ssl_close frees although its close
\* notification blocks too.
C23_Witness ==
    \E s \in Streams :
        /\ streams[s].connected
        /\ ~streams[s].txbuf.null
        /\ streams[s].tx_want # SSL_NOTHING
        /\ streams[s].rx_want # SSL_NOTHING
        /\ ~ssl_close(streams[s], "blocked").stream.open

(* ----------------------------- pssl_accept ---------------------------- *)

\* C24: pssl_accept, whatever the system answers: on an empty backlog it
\* returns EAGAIN and creates no stream; on another error of accept it
\* returns the error and creates no stream; when the accepted socket
\* cannot be made nonblocking it closes the socket, returns the error and
\* creates no stream; and the stream it creates is a SERVER in
\* STATE_SSL_CONNECTING with txbuf NULL and rx_want and tx_want at
\* SSL_NOTHING, which it does create when the configuration is complete
\* and the system calls of new_ssl_stream succeed.  The step that creates
\* the stream leaves the listener as it was.
C24_Accept ==
    /\ [](\A a \in AcceptedAnswers :
            LET r == Accepted(a) IN
            /\ a.acc = "EAGAIN" =>
                  r.retval = EAGAIN /\ r.stream = NoStream /\ r.fd = "none"
            /\ a.acc = "error" =>
                  /\ r.retval \notin {0, EAGAIN}
                  /\ r.stream = NoStream
                  /\ r.fd = "none"
            /\ (a.acc = "connection" /\ ~a.nonblocking_ok) =>
                  r.retval # 0 /\ r.stream = NoStream /\ r.fd = "closed"
            /\ (/\ a.acc = "connection" /\ a.nonblocking_ok
                /\ Configured /\ a.sys = "ok") => r.retval = 0
            /\ r.retval = 0 <=> r.stream.open
            /\ r.stream.open =>
                  /\ r.stream.type = SERVER
                  /\ r.stream.state = STATE_SSL_CONNECTING
                  /\ r.stream.txbuf = NoBuf
                  /\ r.stream.rx_want = SSL_NOTHING
                  /\ r.stream.tx_want = SSL_NOTHING
                  /\ ~r.stream.connected
                  /\ r.fd = "owned")
    /\ [][\A s \in Streams :
            (/\ ~streams[s].open /\ streams'[s].open
             /\ streams'[s].type = SERVER)
            => /\ listener /\ listener'
               /\ streams'[s].state = STATE_SSL_CONNECTING
               /\ streams'[s].txbuf = NoBuf]_vars

\* C24: pssl_accept has created a stream in a process with a CA
\* certificate loaded and no bootstrap armed, and the listener is still
\* there.
C24_Witness ==
    \E s \in Streams :
        /\ streams[s].open
        /\ streams[s].type = SERVER
        /\ streams[s].handshake = "init"
        /\ ~streams[s].shut
        /\ listener
        /\ has_ca_cert
        /\ ~bootstrap_ca_cert

(* ----------------------- configuration functions ---------------------- *)

\* The statics a configuration function leaves when called with ssl_init
\* answering 'init_ok' and its body leaving 'new'.
Configured_by(init_ok, new) == IF ssl_init(init_ok) = 0 THEN new ELSE Statics

\* The four flags of the statics 'st'.
Flags(st) ==
    <<st.has_private_key, st.has_certificate, st.has_ca_cert,
      st.bootstrap_ca_cert>>

\* What C25 says of the private key and certificate setters: a call that
\* fails leaves the four flags as they were.
KeySettersKeep ==
    \A init_ok \in InitAnswers, loaded, match \in BOOLEAN :
        (ssl_init(init_ok) # 0 \/ ~loaded) =>
            /\ Flags(Configured_by(init_ok,
                                   set_private_key_file(loaded, match)))
                 = Flags(Statics)
            /\ Flags(Configured_by(init_ok,
                                   set_certificate_file(loaded, match)))
                 = Flags(Statics)

\* What C25 says of the CA setter called on 'file_name' when it arms the
\* bootstrap exactly in the cases 'arming'.
CaSetterKeeps(arming(_, _, _)) ==
    \A file_name \in Paths, bootstrap \in BOOLEAN, init_ok \in InitAnswers :
        \A load_ok \in LoadAnswers(file_name, bootstrap) :
            LET r == Configured_by(init_ok,
                                   set_ca_cert_file(file_name, bootstrap,
                                                    load_ok))
            IN  IF arming(file_name, bootstrap, init_ok)
                THEN r = [Statics EXCEPT !.bootstrap_ca_cert = TRUE,
                                         !.ca_cert_file = file_name]
                ELSE /\ r.bootstrap_ca_cert = bootstrap_ca_cert
                     /\ r.ca_cert_file = ca_cert_file
                     /\ r.has_private_key = has_private_key
                     /\ r.has_certificate = has_certificate
                     /\ r.has_ca_cert # has_ca_cert =>
                           /\ r.has_ca_cert
                           /\ read_cert_file(file_name).errno = 0
                           /\ load_ok
                     /\ read_cert_file(file_name).errno # 0 =>
                           r = Statics

\* C25, in its strongest form: a failing call of a setter leaves the four
\* flags as they were, and the CA setter arms the bootstrap exactly when
\* it is called with bootstrap true on a file that does not exist.
C25_ArmsExactly ==
    /\ KeySettersKeep
    /\ CaSetterKeeps(LAMBDA file_name, bootstrap, init_ok :
                        bootstrap /\ ~fs[file_name].exists)

\* C25: a call of the private key or certificate setter in which ssl_init
\* or the load of the file fails leaves the four flags as they were.  The
\* CA setter, called with bootstrap true on a file that does not exist
\* and with ssl_init succeeding, sets bootstrap_ca_cert and records the
\* path and leaves every other static, has_ca_cert and the trust store
\* among them, as it was; in every other call it leaves bootstrap_ca_cert,
\* the path and the other setters' flags as they were, changes has_ca_cert
\* only to true and only when the file was read and the trust store
\* loaded, and changes nothing when the file is missing or malformed.
C25_Setters ==
    /\ KeySettersKeep
    /\ CaSetterKeeps(LAMBDA file_name, bootstrap, init_ok :
                        /\ bootstrap /\ ~fs[file_name].exists
                        /\ ssl_init(init_ok) = 0)

\* C25: the CA setter has armed the bootstrap on a path that does not
\* exist, in a process with no CA certificate and no stream.
C25_Witness ==
    /\ init_status = 0
    /\ bootstrap_ca_cert
    /\ ~has_ca_cert
    /\ trust_store = {}
    /\ ca_cert_file \in NewPaths
    /\ ~fs[ca_cert_file].exists
    /\ \A s \in Streams : ~streams[s].open

(* ------------------------------- tx_want ------------------------------ *)

\* The wants and the payload of 'after' are those of 'before'.
KeepsWants(before, after) ==
    /\ after.rx_want = before.rx_want
    /\ after.tx_want = before.tx_want
    /\ after.txbuf = before.txbuf

\* C26: in every state, tx_want of an open stream is SSL_READING or
\* SSL_WRITING only if a payload is buffered, so that ssl_run_wait
\* registers a poll only for a stream with a payload; whatever the library
\* answers, an ssl_send or ssl_run that leaves txbuf NULL leaves tx_want at
\* SSL_NOTHING, and so does ssl_close; and ssl_connect and
\* ssl_wait(STREAM_CONNECT) leave rx_want, tx_want and txbuf as they were.
C26_TxWantBuffered ==
    \A s \in Streams :
        LET sv == streams[s] IN
        /\ sv.tx_want # SSL_NOTHING => sv.open /\ ~sv.txbuf.null
        /\ sv.open =>
            /\ ssl_run_wait(sv).events # {} => ~sv.txbuf.null
            /\ ~ssl_run_wait(sv).immediate
            /\ \A ans \in ShutdownAnswers :
                  ssl_close(sv, ans).stream.tx_want = SSL_NOTHING
            /\ \A a \in ConnectAnswers(sv) :
                  /\ KeepsWants(sv, Connected(sv, a).stream)
                  /\ KeepsWants(sv, WaitedConnect(sv, a).stream)
            /\ (sv.connected /\ sv.txbuf.null) =>
                \A buffer \in Payloads : \A script \in Scripts(Len(buffer)) :
                    LET after == ssl_send(sv, buffer, script).stream IN
                    after.txbuf.null <=> after.tx_want = SSL_NOTHING
            /\ ~sv.txbuf.null =>
                \A script \in Scripts(Len(sv.txbuf.data)) :
                    LET after == ssl_run(sv, script) IN
                    after.txbuf.null <=> after.tx_want = SSL_NOTHING

\* C26: ssl_wait(STREAM_CONNECT) has been called on a connected stream
\* and has asked for an immediate wake; the stream has no payload and
\* tx_want at SSL_NOTHING, and rx_want holds the direction of a blocked
\* read.
C26_Witness ==
    \E s \in Streams :
        /\ streams[s].connected
        /\ streams[s].txbuf.null
        /\ streams[s].tx_want = SSL_NOTHING
        /\ streams[s].rx_want # SSL_NOTHING
        /\ poll[STREAM_CONNECT].immediate
====
